---- MODULE Spec2Model ----
(***************************************************************************)
(* A model of the QR reader of avil13/qr: the image binarizer              *)
(* (QRImageData), the finder pattern detector, the grid sampler, the       *)
(* segment decoder and the QRCodeReader driver that retries the pipeline   *)
(* with several thresholds.                                                *)
(*                                                                         *)
(* Conventions.  JavaScript arrays are modelled by sequences, so the       *)
(* element the code calls a[i] is a[i + 1] here.  Real numbers the code    *)
(* computes (pattern centres, module sizes) are exact rationals <<n, d>>   *)
(* with d > 0.  Strings the decoder returns are sequences of character     *)
(* codes.                                                                  *)
(***************************************************************************)
EXTENDS Integers, Sequences, FiniteSets, TLC

VARIABLES
    pc,          \* position of the operation under way
    file,        \* the input handed to the operation (a PixelBuffer, a bit stream, ...)
    image,       \* the QRImageData object: width, height, grayscale, _threshold
    query,       \* the last isBlack call and its answer
    scan,        \* findPatterns' loop variables i, j, stateCount, currentState, lastWasBlack,
                 \* and the calls of checkRatio it has made (row, counts)
    ratioOk,     \* what checkRatio returned
    candidates,  \* findPatterns' local array `patterns`, before filterPatterns
    patterns,    \* the FinderPattern[] findPatterns returned / sample received
    matrix,      \* the BitMatrix: size and the cells that hold true
    reads,       \* the pixels sample read through image.isBlack
    result,      \* the decoded string (a sequence of character codes)
    error,       \* the message of the Error an operation raised
    tried,       \* the thresholds readWithCustomDecoder has applied, in order
    pending,     \* the rest of its array `thresholds`, not yet applied
    attempts,    \* what each attempt of readWithCustomDecoder came to
    native,      \* the platform's BarcodeDetector: absent or what it does
    fallbackStarts, \* how many times readWithCustomDecoder was started
    view,        \* the reader component's refs result, error and isLoading
    calls        \* the invocations of handleFile: the file of each and where it stands

vars == <<pc, file, image, query, scan, ratioOk, candidates, patterns, matrix, reads,
          result, error, tried, pending, attempts, native, fallbackStarts, view, calls>>

None == "none"

\* The values the variables hold before the object they stand for exists.
NoImage == [width |-> 0, height |-> 0, grayscale |-> <<>>, threshold |-> 0]

NoQuery == [asked |-> FALSE, x |-> 0, y |-> 0, threshold |-> <<>>, level |-> 0,
            black |-> FALSE]

NoMatrix == [size |-> 0, cells |-> {}]

NoNative == [exists |-> FALSE, throws |-> FALSE, results |-> <<>>]

\* The component's refs as `ref(null)` and `ref(false)` leave them.
NoView == [result |-> None, error |-> None, isLoading |-> FALSE, previewUrl |-> None]

NoScan == [i |-> 0, j |-> 0, stateCount |-> <<0, 0, 0, 0, 0>>, currentState |-> 0,
           lastWasBlack |-> FALSE, checks |-> <<>>]

(***************************************************************************)
(* Arithmetic.                                                             *)
(***************************************************************************)
Abs(n) == IF n < 0 THEN -n ELSE n

Min(a, b) == IF a < b THEN a ELSE b

Max(a, b) == IF a > b THEN a ELSE b

RECURSIVE Gcd(_, _)
Gcd(a, b) == IF b = 0 THEN a ELSE Gcd(b, a % b)

\* The rational n/d in lowest terms with a positive denominator.
Rat(n, d) ==
    LET s == IF d < 0 THEN -1 ELSE 1
        g == Gcd(Abs(n), Abs(d))
    IN  <<(s * n) \div g, (s * d) \div g>>

RInt(n) == <<n, 1>>

\* Sums go over the least common denominator, which keeps the numbers small.
RAdd(a, b) ==
    LET g == Gcd(a[2], b[2])
    IN  Rat(a[1] * (b[2] \div g) + b[1] * (a[2] \div g), (a[2] \div g) * b[2])

RNeg(a) == <<-a[1], a[2]>>

RSub(a, b) == RAdd(a, RNeg(b))

RMul(a, b) == Rat(a[1] * b[1], a[2] * b[2])

RDiv(a, b) == Rat(a[1] * b[2], a[2] * b[1])

RLt(a, b) == a[1] * b[2] < b[1] * a[2]

RLe(a, b) == a[1] * b[2] <= b[1] * a[2]

RAbs(a) == <<Abs(a[1]), a[2]>>

\* Math.floor
RFloor(a) == a[1] \div a[2]

\* Math.round: the nearest integer, a half rounding up.
RRound(a) == (2 * a[1] + a[2]) \div (2 * a[2])

\* The sum of s[lo..hi], by halves (a long array is not walked to its depth).
RECURSIVE SumRange(_, _, _)
SumRange(s, lo, hi) ==
    IF lo > hi THEN 0
    ELSE IF lo = hi THEN s[lo]
    ELSE LET mid == (lo + hi) \div 2
         IN  SumRange(s, lo, mid) + SumRange(s, mid + 1, hi)

SumSeq(s) == SumRange(s, 1, Len(s))

\* The sum of a sequence of fractions.
RECURSIVE RSumSeq(_)
RSumSeq(s) == IF s = <<>> THEN RInt(0) ELSE RAdd(RSumSeq(SubSeq(s, 1, Len(s) - 1)), s[Len(s)])

(***************************************************************************)
(* Natural numbers of any size, as little-endian sequences of limbs below  *)
(* BigBase: the between-class variance of a whole image does not fit in    *)
(* 32 bits.                                                                *)
(***************************************************************************)
BigBase == 10000

RECURSIVE BigOf(_)
BigOf(n) == IF n = 0 THEN <<>> ELSE <<n % BigBase>> \o BigOf(n \div BigBase)

RECURSIVE BigCarry(_, _)
BigCarry(s, c) ==
    IF s = <<>> THEN BigOf(c)
    ELSE <<(Head(s) + c) % BigBase>> \o BigCarry(Tail(s), (Head(s) + c) \div BigBase)

RECURSIVE BigTrim(_)
BigTrim(s) ==
    IF s # <<>> /\ s[Len(s)] = 0 THEN BigTrim(SubSeq(s, 1, Len(s) - 1)) ELSE s

\* The product: limb k collects a[i] * b[k + 1 - i], then the carries run.
BigMul(a, b) ==
    IF a = <<>> \/ b = <<>> THEN <<>>
    ELSE LET raw == [k \in 1..(Len(a) + Len(b) - 1) |->
                        SumSeq([i \in 1..Len(a) |->
                            IF k + 1 - i \in 1..Len(b) THEN a[i] * b[k + 1 - i] ELSE 0])]
         IN  BigTrim(BigCarry(raw, 0))

RECURSIVE BigLtFrom(_, _, _)
BigLtFrom(a, b, k) ==
    IF k = 0 THEN FALSE
    ELSE IF a[k] # b[k] THEN a[k] < b[k]
    ELSE BigLtFrom(a, b, k - 1)

BigLt(a, b) ==
    IF Len(a) # Len(b) THEN Len(a) < Len(b) ELSE BigLtFrom(a, b, Len(a))

BigLimb(a, k) == IF k <= Len(a) THEN a[k] ELSE 0

BigAdd(a, b) ==
    BigTrim(BigCarry([k \in 1..Max(Len(a), Len(b)) |-> BigLimb(a, k) + BigLimb(b, k)], 0))

\* The limbs of a - b from limb k on, given the borrow; a >= b.
RECURSIVE BigBorrow(_, _, _, _)
BigBorrow(a, b, k, borrow) ==
    IF k > Len(a) THEN <<>>
    ELSE LET d == a[k] - BigLimb(b, k) - borrow
         IN  <<IF d < 0 THEN d + BigBase ELSE d>>
                \o BigBorrow(a, b, k + 1, IF d < 0 THEN 1 ELSE 0)

BigSub(a, b) == BigTrim(BigBorrow(a, b, 1, 0))

\* The largest r with r * r <= n, by bisection between lo and hi.
RECURSIVE IsqrtBetween(_, _, _)
IsqrtBetween(n, lo, hi) ==
    IF lo >= hi THEN lo
    ELSE LET mid == (lo + hi + 1) \div 2
         IN  IF mid <= n \div mid THEN IsqrtBetween(n, mid, hi)
             ELSE IsqrtBetween(n, lo, mid - 1)

Isqrt(n) == IF n <= 0 THEN 0 ELSE IsqrtBetween(n, 1, n)

\* Math.sqrt(a) + Math.sqrt(b) < c for fractions a, b >= 0 and c, decided
\* exactly: c > 0, s = c^2 - a - b > 0 and 4ab < s^2.
SqrtSumLt(a, b, c) ==
    IF c[1] <= 0 THEN FALSE
    ELSE LET c1sq == BigMul(BigOf(c[1]), BigOf(c[1]))
             c2sq == BigMul(BigOf(c[2]), BigOf(c[2]))
             a2b2 == BigMul(BigOf(a[2]), BigOf(b[2]))
             p == BigMul(c1sq, a2b2)
             q == BigMul(BigAdd(BigMul(BigOf(a[1]), BigOf(b[2])),
                                BigMul(BigOf(b[1]), BigOf(a[2]))), c2sq)
         IN  IF ~BigLt(q, p) THEN FALSE
             ELSE LET s1 == BigSub(p, q)
                      s2 == BigMul(c2sq, a2b2)
                  IN  BigLt(BigMul(BigMul(BigOf(4), BigMul(BigOf(a[1]), BigOf(b[1]))),
                                   BigMul(s2, s2)),
                            BigMul(BigMul(s1, s1), a2b2))

(***************************************************************************)
(* QRImageData (image-processing.ts).                                      *)
(***************************************************************************)
\* data[idx] ?? 0
ByteAt(data, idx) == IF idx + 1 \in 1..Len(data) THEN data[idx + 1] ELSE 0

\* Math.round(0.299 * r + 0.587 * g + 0.114 * b), stored in a Uint8Array
Luminance(r, g, b) == ((299 * r + 587 * g + 114 * b + 500) \div 1000) % 256

\* The constructor's loop: one luminance per pixel.
Grayscale(width, height, data) ==
    [i \in 1..(width * height) |->
        Luminance(ByteAt(data, 4 * (i - 1)), ByteAt(data, 4 * (i - 1) + 1),
                  ByteAt(data, 4 * (i - 1) + 2))]

MaxLevel == 255

\* histogram[grayscale[i]]++ for every pixel: the count of each level.
Histogram(gray) ==
    LET present == {gray[i] : i \in 1..Len(gray)}
    IN  [v \in 0..MaxLevel |->
            IF v \in present THEN Cardinality({i \in 1..Len(gray) : gray[i] = v}) ELSE 0]

\* The between-class variance wB * wF * (mB - mF)^2 with mB = sumB / wB and
\* mF = (sum - sumB) / wF, as the exact fraction numerator / denominator:
\* (sumB * wF - (sum - sumB) * wB)^2 / (wB * wF).
Variance(wB, wF, sumB, sum) ==
    LET d == Abs(sumB * wF - (sum - sumB) * wB)
    IN  [num |-> BigMul(BigOf(d), BigOf(d)), den |-> BigOf(wB * wF)]

\* variance > maxVariance
VarianceGt(v, m) == BigLt(BigMul(m.num, v.den), BigMul(v.num, m.den))

ZeroVariance == [num |-> <<>>, den |-> <<1>>]

DefaultThreshold == 127

\* One pass of the loop of computeOtsuThreshold, for candidate i; st holds the
\* loop's variables sumB, wB, maxVariance, threshold, and whether it has broken.
OtsuStep(hist, total, sum, i, st) ==
    IF st.broken THEN st
    ELSE LET wB == st.wB + hist[i]
             wF == total - wB
         IN  IF wB = 0 THEN st
             ELSE IF wF = 0 THEN [st EXCEPT !.wB = wB, !.broken = TRUE]
             ELSE LET sumB == st.sumB + i * hist[i]
                      variance == Variance(wB, wF, sumB, sum)
                      better == VarianceGt(variance, st.maxVariance)
                  IN  [sumB |-> sumB, wB |-> wB, broken |-> FALSE,
                       maxVariance |-> IF better THEN variance ELSE st.maxVariance,
                       threshold |-> IF better THEN i ELSE st.threshold]

\* The passes for i = lo .. hi in order, first half then second half; nothing
\* runs after the break.
RECURSIVE OtsuLoop(_, _, _, _, _, _)
OtsuLoop(hist, total, sum, lo, hi, st) ==
    IF lo = hi THEN OtsuStep(hist, total, sum, lo, st)
    ELSE LET mid == (lo + hi) \div 2
             half == OtsuLoop(hist, total, sum, lo, mid, st)
         IN  IF half.broken THEN half
             ELSE OtsuLoop(hist, total, sum, mid + 1, hi, half)

computeOtsuThreshold(gray) ==
    LET hist == Histogram(gray)
        sum == SumSeq([v \in 1..(MaxLevel + 1) |-> (v - 1) * hist[v - 1]])
    IN  OtsuLoop(hist, Len(gray), sum, 0, MaxLevel,
            [sumB |-> 0, wB |-> 0, broken |-> FALSE, maxVariance |-> ZeroVariance,
             threshold |-> DefaultThreshold]).threshold

\* new QRImageData(width, height, data)
NewImage(width, height, data) ==
    LET gray == Grayscale(width, height, data)
    IN  [width |-> width, height |-> height, grayscale |-> gray,
         threshold |-> computeOtsuThreshold(gray)]

setThreshold(img, value) == [img EXCEPT !.threshold = value]

\* The element the typed array holds at an index, undefined (replaced by 0)
\* outside it.
PixelDefault == 0

getPixel(img, x, y) ==
    LET idx == y * img.width + x
    IN  IF idx + 1 \in 1..Len(img.grayscale) THEN img.grayscale[idx + 1] ELSE PixelDefault

\* threshold ?? this._threshold: thr is <<>> when the argument is omitted,
\* <<t>> when it is given.
ActiveThreshold(img, thr) == IF thr = <<>> THEN img.threshold ELSE thr[1]

\* A variant of isBlack with the comparison turned round.
isBlackAbove(img, x, y, thr) ==
    getPixel(img, x, y) > ActiveThreshold(img, thr)

\* isBlack(x, y, threshold?)
isBlack(img, x, y, thr) ==
    getPixel(img, x, y) < ActiveThreshold(img, thr)

(***************************************************************************)
(* BitMatrix (extraction.ts).  bits is an array of `size` row arrays; the  *)
(* model keeps the set of cells <<x, y>> whose element is true.            *)
(***************************************************************************)
NewBitMatrix(size) == [size |-> size, cells |-> {}]

\* get(x, y): this.bits[y]?.[x] || false
get(mat, x, y) == <<x, y>> \in mat.cells

\* set(x, y, value): the row must exist; the element x of the row is written
\* whatever x is.
set(mat, x, y, value) ==
    IF y \in 0..(mat.size - 1)
    THEN [mat EXCEPT !.cells = IF value THEN @ \cup {<<x, y>>} ELSE @ \ {<<x, y>>}]
    ELSE mat

(***************************************************************************)
(* Point and FinderPattern (detection.ts): center.x, center.y and size are *)
(* fractions.                                                              *)
(***************************************************************************)
Point(x, y) == [x |-> x, y |-> y]

FinderPattern(center, size) == [center |-> center, size |-> size]

\* The square of a.distanceTo(b).
DistanceSq(a, b) ==
    RAdd(RMul(RSub(a.x, b.x), RSub(a.x, b.x)), RMul(RSub(a.y, b.y), RSub(a.y, b.y)))

\* a.distanceTo(b) < limit, for an integer limit > 0
DistanceLt(a, b, limit) == RLt(DistanceSq(a, b), RInt(limit * limit))

\* array.sort((a, b) => key(a) - key(b)), keys[i] being the key of ss[i]:
\* sorting is stable, so element i comes after the elements with a smaller
\* key and after the earlier elements with an equal key.
SortByKey(ss, keys) ==
    LET rank(i) == Cardinality({j \in 1..Len(ss) :
                        RLt(keys[j], keys[i]) \/ (keys[j] = keys[i] /\ j < i)})
    IN  [r \in 1..Len(ss) |-> ss[CHOOSE i \in 1..Len(ss) : rank(i) = r - 1]]

(***************************************************************************)
(* FinderPatternDetector (detection.ts).                                   *)
(***************************************************************************)
\* How long a loop `while (inside && test(k)) k++` runs from k = 0, when it
\* cannot run more than limit times.
RunLength(limit, test(_)) ==
    CHOOSE n \in 0..limit :
        /\ \A k \in 0..(n - 1) : test(k)
        /\ n = limit \/ ~test(n)

\* clearCounts, and the start of a row
RowStart == [stateCount |-> <<0, 0, 0, 0, 0>>, currentState |-> 0,
             lastWasBlack |-> FALSE, found |-> <<>>]

\* stateCount[currentState]++
Bump(stateCount, slot) == [stateCount EXCEPT ![slot + 1] = @ + 1]

\* shiftCounts
shiftCounts(stateCount) == <<stateCount[3], stateCount[4], stateCount[5], 0, 0>>

\* The tolerance factor of the ratio test.
Tolerance == Rat(7, 10)

\* The ratio test without its fifth comparison.
checkRatioFirstFour(stateCount) ==
    LET total == SumSeq(stateCount)
        moduleSize == Rat(total, 7)
        maxVariance == RMul(moduleSize, Tolerance)
        near(expected, count, allowed) ==
            RLt(RAbs(RSub(expected, RInt(count))), allowed)
    IN  IF total < 7 THEN FALSE
        ELSE /\ near(moduleSize, stateCount[1], maxVariance)
             /\ near(moduleSize, stateCount[2], maxVariance)
             /\ near(RMul(RInt(3), moduleSize), stateCount[3], RMul(RInt(3), maxVariance))
             /\ near(moduleSize, stateCount[4], maxVariance)

\* checkRatio, on the five counts
checkRatio(stateCount) ==
    LET total == SumSeq(stateCount)
        moduleSize == Rat(total, 7)
        maxVariance == RMul(moduleSize, Tolerance)
        near(expected, count, allowed) ==
            RLt(RAbs(RSub(expected, RInt(count))), allowed)
    IN  IF total < 7 THEN FALSE
        ELSE /\ near(moduleSize, stateCount[1], maxVariance)
             /\ near(moduleSize, stateCount[2], maxVariance)
             /\ near(RMul(RInt(3), moduleSize), stateCount[3], RMul(RInt(3), maxVariance))
             /\ near(moduleSize, stateCount[4], maxVariance)
             /\ near(moduleSize, stateCount[5], maxVariance)

\* getCenterFromEnd
getCenterFromEnd(stateCount, end) ==
    RSub(RInt(end - stateCount[5] - stateCount[4]), Rat(stateCount[3], 2))

\* checkVertical: the runs above and below (centerCol, centerRow), then the
\* same ratio test.
checkVertical(img, centerRow, centerCol) ==
    LET up(from, colour) ==
            RunLength(from + 1, LAMBDA k : isBlack(img, centerCol, from - k, <<>>) = colour)
        down(from, colour) ==
            RunLength(IF from < img.height THEN img.height - from ELSE 0,
                      LAMBDA k : isBlack(img, centerCol, from + k, <<>>) = colour)
        up2 == up(centerRow, TRUE)
        rowA == centerRow - up2
        up1 == up(rowA, FALSE)
        rowB == rowA - up1
        up0 == up(rowB, TRUE)
        down2 == down(centerRow + 1, TRUE)
        rowC == centerRow + 1 + down2
        down3 == down(rowC, FALSE)
        rowD == rowC + down3
        down4 == down(rowD, TRUE)
    IN  IF rowA < 0 THEN FALSE
        ELSE IF rowB < 0 THEN FALSE
        ELSE IF rowC >= img.height THEN FALSE
        ELSE IF rowD >= img.height THEN FALSE
        ELSE checkRatio(<<up0, up1, up2 + down2, down3, down4>>)

\* The candidate recorded if the ratio test alone decided.
ConfirmedByRatioOnly(img, i, stateCount, end) ==
    IF checkRatio(stateCount)
    THEN <<FinderPattern(Point(getCenterFromEnd(stateCount, end), RInt(i)),
                         Rat(SumSeq(stateCount), 7))>>
    ELSE <<>>

\* The candidate findPatterns records when the five counts end at column
\* `end` of row i, if both tests pass.
Confirmed(img, i, stateCount, end) ==
    IF checkRatio(stateCount)
    THEN LET centerJ == getCenterFromEnd(stateCount, end)
         IN  IF checkVertical(img, i, RRound(centerJ))
             THEN <<FinderPattern(Point(centerJ, RInt(i)), Rat(SumSeq(stateCount), 7))>>
             ELSE <<>>
    ELSE <<>>

\* One pass of the inner loop of findPatterns: pixel j of row i.
ScanPixel(img, i, j, st) ==
    LET black == isBlack(img, j, i, <<>>)
    IN  IF black = st.lastWasBlack
        THEN [st EXCEPT !.stateCount = Bump(@, st.currentState)]
        ELSE IF black
        THEN IF st.currentState = 4
             THEN [stateCount |-> Bump(shiftCounts(st.stateCount), 2),
                   currentState |-> 2,
                   lastWasBlack |-> black,
                   found |-> st.found \o Confirmed(img, i, st.stateCount, j)]
             ELSE [st EXCEPT !.currentState = @ + 1,
                             !.stateCount = Bump(@, st.currentState + 1),
                             !.lastWasBlack = black]
        ELSE IF st.currentState < 4
        THEN [st EXCEPT !.currentState = @ + 1,
                        !.stateCount = Bump(@, st.currentState + 1),
                        !.lastWasBlack = black]
        ELSE [st EXCEPT !.lastWasBlack = black]

\* The passes for pixels lo .. hi of row i in order, first half then second
\* half.
RECURSIVE ScanPixels(_, _, _, _, _)
ScanPixels(img, i, lo, hi, st) ==
    IF lo > hi THEN st
    ELSE IF lo = hi THEN ScanPixel(img, i, lo, st)
    ELSE LET mid == (lo + hi) \div 2
             half == ScanPixels(img, i, lo, mid, st)
         IN  IF half.currentState <= 4 THEN ScanPixels(img, i, mid + 1, hi, half)
             ELSE half

\* One pass of the outer loop: the candidates of row i, with the check at the
\* end of the row.
ScanRow(img, i) ==
    LET st == ScanPixels(img, i, 0, img.width - 1, RowStart)
    IN  st.found \o (IF st.currentState = 4
                     THEN Confirmed(img, i, st.stateCount, img.width)
                     ELSE <<>>)

\* The concatenation of ss[lo..hi], by halves.
RECURSIVE ConcatRange(_, _, _)
ConcatRange(ss, lo, hi) ==
    IF lo > hi THEN <<>>
    ELSE IF lo = hi THEN ss[lo]
    ELSE LET mid == (lo + hi) \div 2
         IN  ConcatRange(ss, lo, mid) \o ConcatRange(ss, mid + 1, hi)

\* The array `patterns` findPatterns has built when the rows are done.
ScanImage(img) ==
    ConcatRange([r \in 1..img.height |-> ScanRow(img, r - 1)], 1, img.height)

\* Patterns whose centres are closer than this are one group.
minDistance == 20

\* The grouping loop of filterPatterns after pattern p: it joins the first
\* group whose first member is near, or starts a group.
AddToGroups(groups, p) ==
    LET near == {g \in 1..Len(groups) :
                    DistanceLt(p.center, groups[g][1].center, minDistance)}
    IN  IF near = {} THEN Append(groups, <<p>>)
        ELSE LET g == CHOOSE g \in near : \A h \in near : g <= h
             IN  [groups EXCEPT ![g] = Append(@, p)]

RECURSIVE GroupRange(_, _, _, _)
GroupRange(pats, lo, hi, groups) ==
    IF lo > hi THEN groups
    ELSE IF lo = hi THEN AddToGroups(groups, pats[lo])
    ELSE LET mid == (lo + hi) \div 2
             half == GroupRange(pats, lo, mid, groups)
         IN  IF Len(half) > 0 THEN GroupRange(pats, mid + 1, hi, half) ELSE half

Groups(pats) == GroupRange(pats, 1, Len(pats), <<>>)

\* The FinderPattern a group is averaged into.
Average(group) ==
    LET n == RInt(Len(group))
        avg(vals) == RDiv(RSumSeq(vals), n)
    IN  FinderPattern(
            Point(avg([k \in 1..Len(group) |-> group[k].center.x]),
                  avg([k \in 1..Len(group) |-> group[k].center.y])),
            avg([k \in 1..Len(group) |-> group[k].size]))

\* groups.find(g => g[0].center.distanceTo(a.center) < 1)?.length ?? 0
Confidence(groups, a) ==
    LET hits == {g \in 1..Len(groups) : DistanceLt(groups[g][1].center, a.center, 1)}
    IN  IF hits = {} THEN 0
        ELSE Len(groups[CHOOSE g \in hits : \A h \in hits : g <= h])

\* averaged.sort((a, b) => confidence(b) - confidence(a))
SortByConfidence(groups, averaged) ==
    SortByKey(averaged, [k \in 1..Len(averaged) |-> RInt(-Confidence(groups, averaged[k]))])

filterPatterns(pats) ==
    IF Len(pats) < 3 THEN pats
    ELSE LET groups == Groups(pats)
             averaged == [g \in 1..Len(groups) |-> Average(groups[g])]
             sorted == SortByConfidence(groups, averaged)
         IN  SubSeq(sorted, 1, Min(3, Len(sorted)))

findPatterns(img) == filterPatterns(ScanImage(img))

(***************************************************************************)
(* QRSampler (extraction.ts).                                              *)
(***************************************************************************)
\* orderPatterns, for three patterns or more: [topLeft, topRight, bottomLeft]
orderPatterns(pats) ==
    LET sorted == SortByKey(pats, [i \in 1..Len(pats) |-> pats[i].center.y])
        topLeft == sorted[1]
        rest == Tail(sorted)
        others == SortByKey(rest, [i \in 1..Len(rest) |-> rest[i].center.x])
    IN  <<topLeft, others[2], others[1]>>

estimateModuleSize(tl, tr, bl) == RDiv(RAdd(RAdd(tl.size, tr.size), bl.size), RInt(3))

\* Math.round((Math.sqrt(a) + Math.sqrt(b)) / 2 / moduleSize) for a, b >= 0 and
\* moduleSize > 0: the least k >= 0 with sqrt(a) + sqrt(b) < (2k + 1) moduleSize.
\* The search starts from the integer square roots, which bracket the sum.
RoundAvgDistance(a, b, moduleSize) ==
    LET low == Isqrt(RFloor(a)) + Isqrt(RFloor(b))
        from == Max(0, RFloor(RDiv(RInt(low), RMul(RInt(2), moduleSize))) - 1)
        to == RFloor(RDiv(RInt(low + 2), RMul(RInt(2), moduleSize))) + 1
    IN  CHOOSE k \in from..to :
            /\ SqrtSumLt(a, b, RMul(RInt(2 * k + 1), moduleSize))
            /\ \A j \in from..(k - 1) : ~SqrtSumLt(a, b, RMul(RInt(2 * j + 1), moduleSize))

\* The last two lines of computeDimension, on the candidate dimension.
RoundDimension(dimension) ==
    IF dimension % 4 = 1 THEN dimension
    ELSE RRound(Rat(dimension, 4)) * 4 + 1

computeDimension(tl, tr, bl, moduleSize) ==
    RoundDimension(
        RoundAvgDistance(DistanceSq(tl.center, tr.center),
                         DistanceSq(tl.center, bl.center), moduleSize) + 7)

\* The pixel position of grid cell (x, y).
SamplePoint(topLeft, moduleSize, x, y) ==
    Point(RAdd(topLeft.center.x, RMul(RInt(x), moduleSize)),
          RAdd(topLeft.center.y, RMul(RInt(y), moduleSize)))

\* px >= 0 && px < image.width && py >= 0 && py < image.height
InsideImage(img, p) ==
    /\ RLe(RInt(0), p.x) /\ RLt(p.x, RInt(img.width))
    /\ RLe(RInt(0), p.y) /\ RLt(p.y, RInt(img.height))

\* patterns.length < 3
\* A variant of the sampler's guard that lets two patterns through.
TooFewBelowTwo(pats) == Len(pats) < 2

\* patterns.length < 3
TooFewPatterns(pats) == Len(pats) < 3

NeedThree == "Need 3 finder patterns"

\* sample(image, patterns): the Error it throws, or the BitMatrix it returns
\* and the pixels it read.
sample(img, pats) ==
    IF TooFewPatterns(pats)
    THEN [error |-> NeedThree, matrix |-> NoMatrix, reads |-> {}]
    ELSE IF Len(pats) < 3
    THEN [error |-> "TypeError", matrix |-> NoMatrix, reads |-> {}]
    ELSE LET ordered == orderPatterns(pats)
             topLeft == ordered[1]
             moduleSize == estimateModuleSize(ordered[1], ordered[2], ordered[3])
             dimension == computeDimension(ordered[1], ordered[2], ordered[3], moduleSize)
             inside == {c \in (0..(dimension - 1)) \X (0..(dimension - 1)) :
                           InsideImage(img, SamplePoint(topLeft, moduleSize, c[1], c[2]))}
             pixel(c) == LET p == SamplePoint(topLeft, moduleSize, c[1], c[2])
                         IN  <<RRound(p.x), RRound(p.y)>>
         IN  [error |-> None,
              matrix |-> [size |-> dimension,
                          cells |-> {c \in inside :
                                        isBlack(img, pixel(c)[1], pixel(c)[2], <<>>)}],
              reads |-> {pixel(c) : c \in inside}]

(***************************************************************************)
(* QRDataDecoder (decoder.ts).                                             *)
(***************************************************************************)
\* bits.slice(from, to)
Slice(bits, from, to) == SubSeq(bits, from + 1, Min(to, Len(bits)))

\* A variant of bitsToInt that takes the first bit as the lowest.
RECURSIVE bitsToIntLowFirst(_)
bitsToIntLowFirst(bits) ==
    IF bits = <<>> THEN 0
    ELSE (IF bits[1] THEN 1 ELSE 0) + 2 * bitsToIntLowFirst(Tail(bits))

\* bitsToInt: result = (result << 1) | bit over the slice, first bit highest.
\* No slice the decoder converts is longer than 11 bits.
RECURSIVE bitsToInt(_)
bitsToInt(bits) ==
    IF bits = <<>> THEN 0
    ELSE 2 * bitsToInt(SubSeq(bits, 1, Len(bits) - 1))
            + (IF bits[Len(bits)] THEN 1 ELSE 0)

readVersion(mat) == (mat.size - 17) \div 4

readFormatInfo(mat) == bitsToInt([i \in 1..6 |-> get(mat, 8, i - 1)])

isReserved(x, y, size) ==
    \/ x < 9 /\ y < 9
    \/ x < 9 /\ y >= size - 8
    \/ x >= size - 8 /\ y < 9
    \/ x = 6 \/ y = 6

\* A variant of the pass that takes the left column of the pair first.
ColumnCellsLeftFirst(size, col, direction) ==
    SelectSeq(
        [k \in 1..(2 * size) |->
            LET count == (k - 1) \div 2
                c == 1 - ((k - 1) % 2)
            IN  <<col - c, IF direction = -1 THEN size - 1 - count ELSE count>>],
        LAMBDA cell : ~isReserved(cell[1], cell[2], size))

\* One pass of readData's while loop: the cells of the column pair (col,
\* col - 1) in the order visited, the reserved ones left out.
ColumnCells(size, col, direction) ==
    SelectSeq(
        [k \in 1..(2 * size) |->
            LET count == (k - 1) \div 2
                c == (k - 1) % 2
            IN  <<col - c, IF direction = -1 THEN size - 1 - count ELSE count>>],
        LAMBDA cell : ~isReserved(cell[1], cell[2], size))

\* readData's while loop from column col on, as the cells whose bits it pushes.
RECURSIVE ReadFrom(_, _, _)
ReadFrom(size, col, direction) ==
    IF col > 0
    THEN LET right == IF col = 6 THEN col - 1 ELSE col
         IN  ColumnCells(size, right, direction) \o ReadFrom(size, right - 2, -direction)
    ELSE <<>>

ReadOrder(size) == ReadFrom(size, size - 1, -1)

readData(mat) ==
    LET order == ReadOrder(mat.size)
    IN  [i \in 1..Len(order) |-> get(mat, order[i][1], order[i][2])]

\* 'Unsupported QR mode'
UnsupportedMode ==
    <<85, 110, 115, 117, 112, 112, 111, 114, 116, 101, 100, 32, 81, 82, 32,
      109, 111, 100, 101>>

\* value.toString(): the decimal digits of a number >= 0, as character codes.
RECURSIVE DecimalString(_)
DecimalString(value) ==
    IF value < 10 THEN <<48 + value>>
    ELSE DecimalString(value \div 10) \o <<48 + (value % 10)>>

\* str.padStart(count, '0')
PadStart(str, count) ==
    [i \in 1..(IF count > Len(str) THEN count - Len(str) ELSE 0) |-> 48] \o str

RECURSIVE Concat(_)
Concat(ss) == IF ss = <<>> THEN <<>> ELSE Head(ss) \o Concat(Tail(ss))

\* decodeNumeric: one group per i = 0, 3, 6, ... below length.
decodeNumeric(bits, length) ==
    Concat([g \in 1..((length + 2) \div 3) |->
        LET i == 3 * (g - 1)
            count == Min(3, length - i)
            value == bitsToInt(Slice(bits, i * 3, i * 3 + count * 3 + (count - 1)))
        IN  PadStart(DecimalString(value), count)])

\* '0123456789ABCDEFGHIJKLMNOPQRSTUVWXYZ $%*+-./:'
Charset ==
    <<48, 49, 50, 51, 52, 53, 54, 55, 56, 57,
      65, 66, 67, 68, 69, 70, 71, 72, 73, 74, 75, 76, 77, 78, 79, 80, 81, 82,
      83, 84, 85, 86, 87, 88, 89, 90,
      32, 36, 37, 42, 43, 45, 46, 47, 58>>

\* charset[index] ?? ''
CharAt(index) == IF index + 1 \in 1..Len(Charset) THEN <<Charset[index + 1]>> ELSE <<>>

\* A variant that emits the two characters of a pair in the other order.
decodeAlphanumericModFirst(bits, length) ==
    Concat([g \in 1..((length + 1) \div 2) |->
        LET i == 2 * (g - 1)
        IN  IF i + 1 < length
            THEN LET value == bitsToInt(Slice(bits, (i * 11) \div 2, (i * 11) \div 2 + 11))
                 IN  CharAt(value % 45) \o CharAt(value \div 45)
            ELSE LET value == bitsToInt(Slice(bits, (i * 11) \div 2, (i * 11) \div 2 + 6))
                 IN  CharAt(value)])

\* decodeAlphanumeric: one pass per i = 0, 2, 4, ... below length.
decodeAlphanumeric(bits, length) ==
    Concat([g \in 1..((length + 1) \div 2) |->
        LET i == 2 * (g - 1)
        IN  IF i + 1 < length
            THEN LET value == bitsToInt(Slice(bits, (i * 11) \div 2, (i * 11) \div 2 + 11))
                 IN  CharAt(value \div 45) \o CharAt(value % 45)
            ELSE LET value == bitsToInt(Slice(bits, (i * 11) \div 2, (i * 11) \div 2 + 6))
                 IN  CharAt(value)])

\* The number of passes of the byte loop: it runs while i < length and
\* 12 + i * 8 + 8 <= bits.length.
ByteCount(bits, length) ==
    CHOOSE n \in 0..length :
        /\ \A i \in 0..(n - 1) : 12 + i * 8 + 8 <= Len(bits)
        /\ n = length \/ ~(12 + n * 8 + 8 <= Len(bits))

\* A variant of the mode indicator that drops the first of the 4 bits.
modeOfThreeBits(bits) == bitsToInt(Slice(bits, 1, 4))

\* const mode = this.bitsToInt(bits.slice(0, 4))
modeIndicator(bits) == bitsToInt(Slice(bits, 0, 4))

decodeData(bits) ==
    IF Len(bits) < 8 THEN <<>>
    ELSE LET mode == modeIndicator(bits)
         IN  IF mode = 4
             THEN LET length == bitsToInt(Slice(bits, 4, 12))
                  IN  [i \in 1..ByteCount(bits, length) |->
                          bitsToInt(Slice(bits, 12 + (i - 1) * 8, 12 + (i - 1) * 8 + 8))]
             ELSE IF mode = 1
             THEN decodeNumeric(Slice(bits, 14, Len(bits)),
                                bitsToInt(Slice(bits, 4, 14)))
             ELSE IF mode = 2
             THEN decodeAlphanumeric(Slice(bits, 13, Len(bits)),
                                     bitsToInt(Slice(bits, 4, 13)))
             ELSE UnsupportedMode

decode(mat) == decodeData(readData(mat))

(***************************************************************************)
(* QRCodeReader (qr-reader.ts).                                            *)
(***************************************************************************)
\* A variant of NativeValue that takes the first non-empty rawValue of any
\* result.
NativeValueOfAny(results) ==
    LET full == {k \in 1..Len(results) : results[k] # <<>>}
    IN  IF full = {} THEN <<>> ELSE results[CHOOSE k \in full : \A j \in full : k <= j]

\* results.length > 0 && results[0]?.rawValue: the value readWithNativeDetector
\* returns, <<>> standing for null (and for the empty string, as falsy).
NativeValue(results) ==
    IF Len(results) > 0 /\ results[1] # <<>> THEN results[1] ELSE <<>>

\* A variant of the driver's array with the raised threshold before the
\* lowered one.
thresholdsRaisedFirst(img) ==
    <<img.threshold, img.threshold + 20, img.threshold - 20, 100, 127, 150>>

\* The array of thresholds the driver builds from the loaded image.
thresholds(img) ==
    <<img.threshold, img.threshold - 20, img.threshold + 20, 100, 127, 150>>

\* A variant of the driver's test that accepts any non-empty string.
AcceptedIfNonEmpty(text) == text # <<>>

\* result && result !== 'Unsupported QR mode' && result.length > 0
Accepted(text) == text # <<>> /\ text # UnsupportedMode

CouldNotFind == "Could not find QR code in image"

FailedToLoad == "Failed to load image"

(***************************************************************************)
(* SpecImage: a QRImageData is constructed from a small PixelBuffer, its   *)
(* threshold is overridden and pixels are queried, inside the image and    *)
(* around it.                                                              *)
(***************************************************************************)
MaxPixels == 3

\* black, red, a gray one level above red's luminance, white
Colors == {<<0, 0, 0>>, <<255, 0, 0>>, <<77, 77, 77>>, <<255, 255, 255>>}

Opaque == 255

\* The RGBA bytes of a buffer whose pixel i has colour px[i].
RGBA(px) ==
    [k \in 1..(4 * Len(px)) |->
        IF (k - 1) % 4 = 3 THEN Opaque ELSE px[((k - 1) \div 4) + 1][((k - 1) % 4) + 1]]

Shapes == {wh \in (1..MaxPixels) \X (1..MaxPixels) : wh[1] * wh[2] <= MaxPixels}

SmallBuffers ==
    UNION { { [width |-> wh[1], height |-> wh[2], data |-> RGBA(px)] :
                px \in [1..(wh[1] * wh[2]) -> Colors] } : wh \in Shapes }

Overrides == {0, 77, 255}

Idle ==
    /\ query = NoQuery /\ candidates = <<>> /\ patterns = <<>> /\ matrix = NoMatrix
    /\ reads = {} /\ result = <<>> /\ error = None /\ tried = <<>> /\ pending = <<>> /\ scan = NoScan /\ ratioOk = FALSE
    /\ attempts = <<>> /\ native = NoNative /\ fallbackStarts = 0
    /\ view = NoView /\ calls = <<>>

InitImage ==
    /\ pc = "new"
    /\ file \in SmallBuffers
    /\ image = NoImage
    /\ Idle

Construct ==
    /\ pc = "new"
    /\ image' = NewImage(file.width, file.height, file.data)
    /\ pc' = "ready"
    /\ UNCHANGED <<view, calls, file, scan, ratioOk, query, candidates, patterns, matrix, reads, result, error,
                   tried, pending, attempts, native, fallbackStarts>>

SetThreshold ==
    /\ pc = "ready"
    /\ \E value \in Overrides : image' = setThreshold(image, value)
    /\ UNCHANGED <<view, calls, pc, file, scan, ratioOk, query, candidates, patterns, matrix, reads, result, error,
                   tried, pending, attempts, native, fallbackStarts>>

IsBlack ==
    /\ pc = "ready"
    /\ \E x \in (-1)..image.width, y \in (-1)..image.height, thr \in {<<>>, <<128>>} :
          query' = [asked |-> TRUE, x |-> x, y |-> y, threshold |-> thr,
                    level |-> ActiveThreshold(image, thr),
                    black |-> isBlack(image, x, y, thr)]
    /\ UNCHANGED <<view, calls, pc, file, scan, ratioOk, image, candidates, patterns, matrix, reads, result, error,
                   tried, pending, attempts, native, fallbackStarts>>

NextImage == Construct \/ SetThreshold \/ IsBlack

SpecImage == InitImage /\ [][NextImage]_vars

(***************************************************************************)
(* SpecDecoder: a BitMatrix is filled, through set, with a bit stream laid *)
(* out along the decoder's own visiting order, and decoded.  A stream is a *)
(* 4-bit mode, a character count and payload units; the cells after the    *)
(* stream stay false.                                                      *)
(***************************************************************************)
\* value as `width` bits, highest first.
Bits(value, width) == [k \in 1..width |-> ((value \div (2 ^ (width - k))) % 2) = 1]

\* The width of the count field that follows each mode indicator.
CountWidth(mode) == IF mode = 1 THEN 10 ELSE IF mode = 2 THEN 9 ELSE 8

\* The bits of an input: mode, count, the units of unitWidth bits each and a
\* last unit of tailWidth bits.
Stream(in) ==
    Bits(in.mode, 4) \o Bits(in.count, CountWidth(in.mode))
        \o Concat([k \in 1..Len(in.units) |-> Bits(in.units[k], in.unitWidth)])
        \o Bits(in.tail, in.tailWidth)

\* new BitMatrix(size), then set(x, y, bit) for the cells of the visiting
\* order, as far as the stream reaches.
Fill(size, stream) ==
    LET order == ReadOrder(size)
    IN  [size |-> size,
         cells |-> {order[i] : i \in {j \in 1..Min(Len(stream), Len(order)) : stream[j]}}]

MaxChars == 3

MaxCount == 3

\* Q, R, ! and the highest byte
Alphabet == {81, 82, 33, 255}

SeqsUpTo(S, n) == UNION {[1..k -> S] : k \in 0..n}

ByteWidth == 8

\* Sizes whose stream holds 4, 9, 16, 25 and 208 bits.
DecoderSizes == {11, 12, 13, 14, 21}

ByteInputs ==
    [size : DecoderSizes, mode : {4}, count : 0..MaxCount,
     units : SeqsUpTo(Alphabet, MaxChars), unitWidth : {ByteWidth},
     tail : {0}, tailWidth : {0}]

\* Version 1 filled to its capacity: 24 characters after the 12 header bits.
FullV1Inputs ==
    { [size |-> 21, mode |-> 4, count |-> 24,
       units |-> [k \in 1..24 |-> IF k % p = 0 THEN a ELSE b], unitWidth |-> ByteWidth,
       tail |-> 0, tailWidth |-> 0] :
        p \in 1..3, a \in Alphabet, b \in Alphabet }

OtherModeInputs ==
    [size : DecoderSizes, mode : (0..15) \ {4}, count : 0..1,
     units : SeqsUpTo({0, 5, 255}, 1), unitWidth : {ByteWidth},
     tail : {0}, tailWidth : {0}]

MaxGroups == 2

\* Digit strings in numeric mode as the standard lays them out: groups of
\* three digits in 10 bits each, then the last two digits in 7 bits or the
\* last digit in 4 bits.
NumericInputs ==
    { [size |-> 21, mode |-> 1, count |-> 3 * Len(u) + t[1], units |-> u,
       unitWidth |-> 10, tail |-> t[2], tailWidth |-> t[3]] :
        u \in SeqsUpTo({0, 7, 123, 999}, MaxGroups),
        t \in {<<0, 0, 0>>, <<1, 0, 4>>, <<1, 7, 4>>, <<1, 9, 4>>,
               <<2, 5, 7>>, <<2, 42, 7>>, <<2, 99, 7>>} }

MaxPairs == 2

\* Alphanumeric strings as the standard lays them out: pairs of characters in
\* 11 bits each (45 * first + second), then a last character in 6 bits.  2047
\* and 63 are the highest values the fields hold.
AlphanumericInputs ==
    { [size |-> 21, mode |-> 2, count |-> 2 * Len(u) + t[1], units |-> u,
       unitWidth |-> 11, tail |-> t[2], tailWidth |-> t[3]] :
        u \in SeqsUpTo({0, 44, 45, 2024, 2047}, MaxPairs),
        t \in {<<0, 0, 0>>, <<1, 0, 6>>, <<1, 10, 6>>, <<1, 44, 6>>, <<1, 63, 6>>} }

DecoderInputs ==
    ByteInputs \cup FullV1Inputs \cup OtherModeInputs \cup NumericInputs
        \cup AlphanumericInputs

InitDecoder ==
    /\ pc = "stream"
    /\ file \in DecoderInputs
    /\ image = NoImage
    /\ Idle

FillMatrix ==
    /\ pc = "stream"
    /\ matrix' = Fill(file.size, Stream(file))
    /\ pc' = "matrix"
    /\ UNCHANGED <<view, calls, file, scan, ratioOk, image, query, candidates, patterns, reads, result, error,
                   tried, pending, attempts, native, fallbackStarts>>

Decode ==
    /\ pc = "matrix"
    /\ result' = decode(matrix)
    /\ pc' = "decoded"
    /\ UNCHANGED <<view, calls, file, scan, ratioOk, image, query, candidates, patterns, matrix, reads, error,
                   tried, pending, attempts, native, fallbackStarts>>

NextDecoder == FillMatrix \/ Decode

SpecDecoder == InitDecoder /\ [][NextDecoder]_vars

(***************************************************************************)
(* SpecSampler: sample is called with an image at its default or at an     *)
(* overridden threshold and with zero to three finder patterns.            *)
(***************************************************************************)
Black == <<0, 0, 0>>

White == <<255, 255, 255>>

\* A width x height buffer whose pixel (x, y) is black where dark(x, y) holds.
Drawing(width, height, dark(_, _)) ==
    [width |-> width, height |-> height,
     data |-> RGBA([i \in 1..(width * height) |->
                 IF dark((i - 1) % width, (i - 1) \div width) THEN Black ELSE White])]

SamplerBuffers ==
    { Drawing(12, 10, LAMBDA x, y : (x + 2 * y) % 3 = 0),
      Drawing(20, 20, LAMBDA x, y : (x * y) % 2 = 1 \/ x = y) }

\* Patterns as the detector reports them: centres at half pixels, sizes in
\* sevenths of a pixel; the first two lie on the same row.
PatternPool ==
    { FinderPattern(Point(Rat(7, 2), RInt(3)), RInt(1)),
      FinderPattern(Point(Rat(35, 2), RInt(3)), RInt(1)),
      FinderPattern(Point(Rat(7, 2), RInt(17)), RInt(1)),
      FinderPattern(Point(RInt(10), RInt(5)), Rat(8, 7)),
      FinderPattern(Point(Rat(1, 2), RInt(0)), Rat(9, 7)) }

MaxPatterns == 3

InitSampler ==
    /\ pc = "patterns"
    /\ file \in SamplerBuffers
    /\ \E override \in {<<>>, <<128>>} :
          image = IF override = <<>> THEN NewImage(file.width, file.height, file.data)
                  ELSE setThreshold(NewImage(file.width, file.height, file.data),
                                    override[1])
    /\ query = NoQuery /\ candidates = <<>>
    /\ patterns \in SeqsUpTo(PatternPool, MaxPatterns)
    /\ matrix = NoMatrix /\ reads = {} /\ result = <<>> /\ error = None
    /\ tried = <<>> /\ pending = <<>> /\ scan = NoScan /\ ratioOk = FALSE /\ attempts = <<>> /\ native = NoNative /\ fallbackStarts = 0
    /\ view = NoView /\ calls = <<>>

Sample ==
    /\ pc = "patterns"
    /\ LET out == sample(image, patterns)
       IN  /\ error' = out.error
           /\ matrix' = out.matrix
           /\ reads' = out.reads
    /\ pc' = "sampled"
    /\ UNCHANGED <<view, calls, file, scan, ratioOk, image, query, candidates, patterns, result,
                   tried, pending, attempts, native, fallbackStarts>>

NextSampler == Sample

SpecSampler == InitSampler /\ [][NextSampler]_vars

(***************************************************************************)
(* SpecDetector: findPatterns on drawings, at the image's own threshold or *)
(* at an override.  The drawings are columns of up to MaxMotifs motifs,    *)
(* each seven rows of eight pixels that the row scan reports on one, two   *)
(* or three of its rows (or on none), with Gaps white rows between them.   *)
(***************************************************************************)
RowA == <<1, 0, 1, 0, 0, 1, 0, 1>>

RowB == <<0, 0, 0, 0, 0, 1, 0, 0>>

RowW == <<0, 0, 0, 0, 0, 0, 0, 0>>

Motifs ==
    { <<RowW, RowW, RowW, RowW, RowW, RowW, RowW>>,
      <<RowB, RowW, RowB, RowA, RowB, RowW, RowB>>,
      <<RowB, RowW, RowA, RowB, RowA, RowW, RowB>>,
      <<RowB, RowW, RowA, RowA, RowA, RowW, RowB>> }

MaxMotifs == 3

Gaps == {13, 14}

\* The rows of a column of motifs.
RECURSIVE Stack(_, _)
Stack(ms, gap) ==
    IF Len(ms) = 1 THEN ms[1]
    ELSE ms[1] \o [k \in 1..gap |-> RowW] \o Stack(Tail(ms), gap)

Picture(rows) ==
    Drawing(Len(rows[1]), Len(rows), LAMBDA x, y : rows[y + 1][x + 1] = 1)

DetectorBuffers ==
    { Picture(Stack(ms, gap)) : ms \in [1..MaxMotifs -> Motifs], gap \in Gaps }

InitDetector ==
    /\ pc = "image"
    /\ file \in DetectorBuffers
    /\ \E override \in {<<>>, <<128>>} :
          image = IF override = <<>> THEN NewImage(file.width, file.height, file.data)
                  ELSE setThreshold(NewImage(file.width, file.height, file.data),
                                    override[1])
    /\ Idle

FindPatterns ==
    /\ pc = "image"
    /\ candidates' = ScanImage(image)
    /\ patterns' = filterPatterns(candidates')
    /\ pc' = "found"
    /\ UNCHANGED <<view, calls, file, scan, ratioOk, image, query, matrix, reads, result, error,
                   tried, pending, attempts, native, fallbackStarts>>

NextDetector == FindPatterns

SpecDetector == InitDetector /\ [][NextDetector]_vars

(***************************************************************************)
(* findPatterns pixel by pixel: one step per pass of the inner loop and    *)
(* one per end of row, the last of which returns filterPatterns' result.   *)
(* The pictures are seven rows of eight pixels: marks the row scan reports *)
(* in mid-row and at the end of a row, with and without the column runs    *)
(* checkVertical looks for.                                                *)
(***************************************************************************)
RowM == <<0, 1, 0, 0, 0, 1, 0, 1>>

RowC == <<0, 0, 0, 0, 1, 0, 0, 0>>

ScanRows ==
    Motifs \cup
    { <<RowC, RowM, RowC, RowC, RowC, RowW, RowC>>,
      <<RowW, RowM, RowW, RowW, RowW, RowW, RowW>>,
      <<RowW, RowW, RowW, RowA, RowW, RowW, RowW>>,
      <<RowC, RowM, RowC, RowA, RowB, RowW, RowB>> }

MaxModule == 2

\* A finder pattern of m pixels per module inside a white border one pixel
\* wide: a dark ring, a light ring and the dark 3 x 3 centre.
FinderBuffer(m) ==
    Drawing(7 * m + 2, 7 * m + 2,
            LAMBDA x, y :
                /\ x \in 1..(7 * m) /\ y \in 1..(7 * m)
                /\ LET ring == Max(Abs((x - 1) \div m - 3), Abs((y - 1) \div m - 3))
                   IN  ring = 3 \/ ring <= 1)

ScanBuffers ==
    { Picture(rows) : rows \in ScanRows } \cup { FinderBuffer(m) : m \in 1..MaxModule }

\* The loop variables at the start of row i.
StartOfRow(i) ==
    [i |-> i, j |-> 0, stateCount |-> RowStart.stateCount,
     currentState |-> RowStart.currentState, lastWasBlack |-> RowStart.lastWasBlack,
     checks |-> <<>>]

InitScan ==
    /\ pc = "scanning"
    /\ file \in ScanBuffers
    /\ \E override \in {<<>>, <<128>>} :
          image = IF override = <<>> THEN NewImage(file.width, file.height, file.data)
                  ELSE setThreshold(NewImage(file.width, file.height, file.data),
                                    override[1])
    /\ scan = StartOfRow(0)
    /\ ratioOk = FALSE
    /\ query = NoQuery /\ candidates = <<>> /\ patterns = <<>> /\ matrix = NoMatrix
    /\ reads = {} /\ result = <<>> /\ error = None /\ tried = <<>> /\ pending = <<>>
    /\ attempts = <<>> /\ native = NoNative /\ fallbackStarts = 0
    /\ view = NoView /\ calls = <<>>

\* One pass of the inner loop.
ScanStep ==
    /\ pc = "scanning"
    /\ scan.i < image.height
    /\ scan.j < image.width
    /\ \E st \in {ScanPixel(image, scan.i, scan.j,
                            [stateCount |-> scan.stateCount,
                             currentState |-> scan.currentState,
                             lastWasBlack |-> scan.lastWasBlack,
                             found |-> <<>>])} :
          /\ scan' = [i |-> scan.i, j |-> scan.j + 1, stateCount |-> st.stateCount,
                      currentState |-> st.currentState,
                      lastWasBlack |-> isBlack(image, scan.j, scan.i, <<>>),
                      checks |-> scan.checks \o
                          (IF /\ isBlack(image, scan.j, scan.i, <<>>)
                              /\ ~scan.lastWasBlack
                              /\ scan.currentState = 4
                           THEN <<[i |-> scan.i, stateCount |-> scan.stateCount]>>
                           ELSE <<>>)]
          /\ candidates' = candidates \o st.found
    /\ UNCHANGED <<view, calls, pc, file, ratioOk, image, query, patterns, matrix, reads, result, error,
                   tried, pending, attempts, native, fallbackStarts>>

\* The check at the end of a row, then the next row or the return.
EndOfRow ==
    /\ pc = "scanning"
    /\ scan.i < image.height
    /\ scan.j = image.width
    /\ candidates' = candidates \o
                        (IF scan.currentState = 4
                         THEN Confirmed(image, scan.i, scan.stateCount, image.width)
                         ELSE <<>>)
    /\ scan' = [StartOfRow(scan.i + 1) EXCEPT
                    !.checks = scan.checks \o
                        (IF scan.currentState = 4
                         THEN <<[i |-> scan.i, stateCount |-> scan.stateCount]>>
                         ELSE <<>>)]
    /\ IF scan.i + 1 < image.height
       THEN UNCHANGED <<pc, patterns>>
       ELSE /\ patterns' = filterPatterns(candidates')
            /\ pc' = "found"
    /\ UNCHANGED <<view, calls, file, ratioOk, image, query, matrix, reads, result, error,
                   tried, pending, attempts, native, fallbackStarts>>

NextScan == ScanStep \/ EndOfRow

SpecScan == InitScan /\ [][NextScan]_vars

(***************************************************************************)
(* checkRatio on its own: the five counts are any runs of up to MaxRun     *)
(* pixels, as the row scan or checkVertical may leave them.                *)
(***************************************************************************)
MaxRun == 5

InitRatio ==
    /\ pc = "counts"
    /\ file = [width |-> 0, height |-> 0, data |-> <<>>]
    /\ image = NoImage
    /\ \E counts \in [1..5 -> 0..MaxRun] :
          scan = [NoScan EXCEPT !.stateCount = counts, !.currentState = 4]
    /\ ratioOk = FALSE
    /\ query = NoQuery /\ candidates = <<>> /\ patterns = <<>> /\ matrix = NoMatrix
    /\ reads = {} /\ result = <<>> /\ error = None /\ tried = <<>> /\ pending = <<>>
    /\ attempts = <<>> /\ native = NoNative /\ fallbackStarts = 0
    /\ view = NoView /\ calls = <<>>

CheckRatio ==
    /\ pc = "counts"
    /\ ratioOk' = checkRatio(scan.stateCount)
    /\ pc' = "checked"
    /\ UNCHANGED <<view, calls, file, image, query, scan, candidates, patterns, matrix, reads,
                   result, error, tried, pending, attempts, native, fallbackStarts, view, calls>>

NextRatio == CheckRatio

SpecRatio == InitRatio /\ [][NextRatio]_vars

(***************************************************************************)
(* filterPatterns on its own: the candidates are any sequence of up to     *)
(* MaxCandidates patterns of a pool in which two centres are 5 px apart, a *)
(* third is within 20 px of only one of them and a fourth is far away.     *)
(***************************************************************************)
CandidatePool ==
    { FinderPattern(Point(RInt(10), RInt(10)), RInt(1)),
      FinderPattern(Point(RInt(13), RInt(14)), RInt(2)),
      FinderPattern(Point(RInt(28), RInt(22)), RInt(1)),
      FinderPattern(Point(RInt(60), RInt(60)), RInt(1)) }

MaxCandidates == 4

InitFilter ==
    /\ pc = "candidates"
    /\ file = [width |-> 0, height |-> 0, data |-> <<>>]
    /\ image = NoImage
    /\ candidates \in SeqsUpTo(CandidatePool, MaxCandidates)
    /\ scan = NoScan /\ ratioOk = FALSE
    /\ query = NoQuery /\ patterns = <<>> /\ matrix = NoMatrix
    /\ reads = {} /\ result = <<>> /\ error = None /\ tried = <<>> /\ pending = <<>>
    /\ attempts = <<>> /\ native = NoNative /\ fallbackStarts = 0
    /\ view = NoView /\ calls = <<>>

FilterPatterns ==
    /\ pc = "candidates"
    /\ patterns' = filterPatterns(candidates)
    /\ pc' = "filtered"
    /\ UNCHANGED <<view, calls, file, image, query, scan, ratioOk, candidates, matrix, reads,
                   result, error, tried, pending, attempts, native, fallbackStarts, view, calls>>

NextFilter == FilterPatterns

SpecFilter == InitFilter /\ [][NextFilter]_vars

(***************************************************************************)
(* SpecReader: read(file) with and without a native detector.  The files   *)
(* are rendered version 1 symbols, sheets that carry three marks the row   *)
(* scan reports and a bit stream where the sampler looks for it, in inks   *)
(* that appear at different thresholds, and a file that does not load.     *)
(***************************************************************************)
\* A width x height buffer of grays: pixel (x, y) has r = g = b = level(x, y).
Painting(width, height, level(_, _)) ==
    [width |-> width, height |-> height,
     data |-> RGBA([i \in 1..(width * height) |->
                 LET v == level((i - 1) % width, (i - 1) \div width)
                 IN  <<v, v, v>>])]

\* The 21 rows of the version 1-L symbols of 'QR!' (mask 0) and 'HI' (mask 3),
\* each row a binary number whose highest bit is the leftmost module.
SymbolQR ==
    <<2083711, 1068609, 1530717, 1526365, 1525085, 1065281, 2086271, 6912,
      1965764, 1807432, 347411, 997448, 943441, 5800, 2086639, 1073081,
      1529573, 1524806, 1531153, 1071174, 2085207>>

SymbolHI ==
    <<2087295, 1067329, 1529181, 1528413, 1530973, 1065025, 2086271, 3072,
      1987741, 957728, 1473011, 1902978, 1106581, 7333, 2084052, 1067977,
      1527369, 1527954, 1528476, 1071961, 2085672>>

\* The symbol drawn black on white, one pixel per module, inside a quiet
\* zone of `quiet` modules.
Render(rows, quiet) ==
    LET n == Len(rows)
        dark(x, y) ==
            /\ x - quiet \in 0..(n - 1)
            /\ y - quiet \in 0..(n - 1)
            /\ (rows[y - quiet + 1] \div (2 ^ (n - 1 - (x - quiet)))) % 2 = 1
    IN  Painting(n + 2 * quiet, n + 2 * quiet,
                 LAMBDA x, y : IF dark(x, y) THEN 0 ELSE 255)

\* A mark the row scan reports at (3.5, r): row r starts white, black, three
\* white, black, white, black, and column 4 is black above and below it.
LeftMark(r) ==
    {<<1, r>>, <<5, r>>, <<7, r>>,
     <<4, r - 1>>, <<4, r + 1>>, <<4, r + 2>>, <<4, r + 3>>, <<4, r + 5>>}

\* A mark the row scan reports at the end of row r of a sheet w wide.
RightMark(w, r) ==
    {<<w - 8, r>>, <<w - 6, r>>, <<w - 3, r>>, <<w - 1, r>>,
     <<w - 3, r - 3>>, <<w - 3, r - 1>>, <<w - 3, r + 1>>, <<w - 3, r + 3>>}

\* The pixels the sampler reads for the first bits of a 33 x 33 matrix
\* anchored at (3.5, 1): the two rightmost columns, from the bottom up.
StreamPixels(stream) ==
    {<<36 - ((k - 1) % 2), 33 - ((k - 1) \div 2)>> : k \in {j \in 1..Len(stream) : stream[j]}}

\* A 37 x 34 sheet: two marks in one ink, the third mark and the stream in
\* inks of their own, and single pixels of other grays.
Sheet(p) ==
    LET extra(x, y) == {e \in p.extra : e[1] = x /\ e[2] = y}
    IN  Painting(37, 34, LAMBDA x, y :
            IF extra(x, y) # {} THEN (CHOOSE e \in extra(x, y) : TRUE)[3]
            ELSE IF <<x, y>> \in LeftMark(1) \cup RightMark(37, 5) THEN p.marks
            ELSE IF <<x, y>> \in LeftMark(21) THEN p.third
            ELSE IF <<x, y>> \in StreamPixels(p.stream) THEN p.stream_ink
            ELSE p.paper)

QRBang == [mode |-> 4, count |-> 3, units |-> <<81, 82, 33>>, unitWidth |-> ByteWidth,
           tail |-> 0, tailWidth |-> 0]

Plain == [marks |-> 0, third |-> 0, stream_ink |-> 0, paper |-> 255,
          stream |-> Stream(QRBang), extra |-> {}]

\* Sheets read at the first, second, ... sixth threshold, and sheets never
\* read: another mode, no characters, two marks only.
Sheets ==
    { [Plain EXCEPT !.extra = {<<0, 33, 10>>}],
      [Plain EXCEPT !.extra = {<<36, 33, 30>>, <<0, 33, 40>>}],
      Plain,
      [Plain EXCEPT !.stream_ink = 95, !.paper = 120],
      [Plain EXCEPT !.third = 95, !.paper = 120],
      [Plain EXCEPT !.stream_ink = 110, !.paper = 140],
      [Plain EXCEPT !.stream_ink = 130, !.paper = 200],
      [Plain EXCEPT !.stream = Stream([QRBang EXCEPT !.mode = 7])],
      [Plain EXCEPT !.stream = Stream([QRBang EXCEPT !.count = 0, !.units = <<>>])],
      [Plain EXCEPT !.third = 255] }

ReaderFiles ==
    { [buffer |-> Render(SymbolQR, 4), rendered |-> TRUE, text |-> <<81, 82, 33>>, loads |-> TRUE],
      [buffer |-> Render(SymbolHI, 4), rendered |-> TRUE, text |-> <<72, 73>>, loads |-> TRUE],
      [buffer |-> Painting(2, 2, LAMBDA x, y : 255), rendered |-> FALSE, text |-> <<>>,
       loads |-> FALSE] }
    \cup { [buffer |-> Sheet(p), rendered |-> FALSE, text |-> <<>>, loads |-> TRUE] :
             p \in Sheets }

\* window.BarcodeDetector: missing, throwing, or detecting these rawValues.
Natives ==
    { NoNative, [exists |-> TRUE, throws |-> TRUE, results |-> <<>>] }
    \cup { [exists |-> TRUE, throws |-> FALSE, results |-> r] :
             r \in {<<>>, << <<>> >>, << <<72, 73>> >>, << <<>>, <<72, 73>> >>,
                    << <<81, 82, 33>>, <<72, 73>> >>} }

InitReader ==
    /\ pc = "read"
    /\ file \in ReaderFiles
    /\ native \in Natives
    /\ image = NoImage
    /\ query = NoQuery /\ candidates = <<>> /\ patterns = <<>> /\ matrix = NoMatrix
    /\ reads = {} /\ result = <<>> /\ error = None /\ tried = <<>> /\ pending = <<>> /\ scan = NoScan /\ ratioOk = FALSE
    /\ attempts = <<>> /\ fallbackStarts = 0
    /\ view = NoView /\ calls = <<>>

\* read(file), up to its first await.
Read ==
    /\ pc = "read"
    /\ IF native.exists
       THEN pc' = "detecting" /\ UNCHANGED fallbackStarts
       ELSE pc' = "loading" /\ fallbackStarts' = fallbackStarts + 1
    /\ UNCHANGED <<view, calls, file, scan, ratioOk, image, query, candidates, patterns, matrix, reads, result,
                   error, tried, pending, attempts, native>>

\* readWithNativeDetector settles, and read goes on from it.
ReadWithNativeDetector ==
    /\ pc = "detecting"
    /\ IF ~native.throws /\ NativeValue(native.results) # <<>>
       THEN /\ result' = NativeValue(native.results)
            /\ pc' = "returned"
            /\ UNCHANGED fallbackStarts
       ELSE /\ pc' = "loading"
            /\ fallbackStarts' = fallbackStarts + 1
            /\ UNCHANGED result
    /\ UNCHANGED <<view, calls, file, scan, ratioOk, image, query, candidates, patterns, matrix, reads,
                   error, tried, pending, attempts, native>>

\* ImageLoader.loadFromFile settles: the rejection that ends
\* readWithCustomDecoder and read, or the QRImageData of the file's pixels,
\* from whose threshold the driver builds its array before the loop.
LoadFromFile ==
    /\ pc = "loading"
    /\ IF file.loads
       THEN /\ image' = NewImage(file.buffer.width, file.buffer.height, file.buffer.data)
            /\ pending' = thresholds(image')
            /\ pc' = "loaded"
            /\ UNCHANGED error
       ELSE /\ error' = FailedToLoad
            /\ pc' = "thrown"
            /\ UNCHANGED <<image, pending>>
    /\ UNCHANGED <<view, calls, file, scan, ratioOk, query, candidates, patterns, matrix, reads, result, tried,
                   attempts, native, fallbackStarts>>

\* One pass of the loop of readWithCustomDecoder, with the return that ends
\* the loop and the throw that follows the last pass.
TryThreshold ==
    /\ pc = "loaded"
    /\ pending # <<>>
    /\ image' = setThreshold(image, Head(pending))
    /\ tried' = Append(tried, Head(pending))
    /\ pending' = Tail(pending)
    /\ patterns' = findPatterns(image')
    /\ IF Len(patterns') >= 3
       THEN \E out \in {sample(image', patterns')} :
               /\ matrix' = out.matrix
               /\ reads' = out.reads
               /\ IF out.error # None
                  THEN attempts' = Append(attempts,
                           [threshold |-> image'.threshold, found |-> Len(patterns'),
                            raised |-> out.error, decoded |-> FALSE, text |-> <<>>])
                  ELSE \E text \in {decode(matrix')} :
                           attempts' = Append(attempts,
                               [threshold |-> image'.threshold, found |-> Len(patterns'),
                                raised |-> None, decoded |-> TRUE, text |-> text])
       ELSE /\ attempts' = Append(attempts,
                   [threshold |-> image'.threshold, found |-> Len(patterns'),
                    raised |-> None, decoded |-> FALSE, text |-> <<>>])
            /\ UNCHANGED <<matrix, reads>>
    /\ IF Accepted(attempts'[Len(attempts')].text)
       THEN result' = attempts'[Len(attempts')].text /\ pc' = "returned" /\ UNCHANGED error
       ELSE IF pending' = <<>>
       THEN error' = CouldNotFind /\ pc' = "thrown" /\ UNCHANGED result
       ELSE pc' = "loaded" /\ UNCHANGED <<result, error>>
    /\ UNCHANGED <<view, calls, file, scan, ratioOk, query, candidates, native, fallbackStarts>>

NextReader == Read \/ ReadWithNativeDetector \/ LoadFromFile \/ TryThreshold

SpecReader == InitReader /\ [][NextReader]_vars

(***************************************************************************)
(* SpecMatrix: a BitMatrix of a small size receives set calls whose        *)
(* coordinates are any integers from one below the first index to one      *)
(* above the last.                                                         *)
(***************************************************************************)
MaxSize == 2

Coordinates == -1..MaxSize

InitMatrix ==
    /\ pc = "matrix"
    /\ file = <<>>
    /\ image = NoImage
    /\ \E size \in 1..MaxSize : matrix = NewBitMatrix(size)
    /\ query = NoQuery /\ candidates = <<>> /\ patterns = <<>>
    /\ reads = {} /\ result = <<>> /\ error = None /\ tried = <<>> /\ pending = <<>>
    /\ scan = NoScan /\ ratioOk = FALSE
    /\ attempts = <<>> /\ native = NoNative /\ fallbackStarts = 0
    /\ view = NoView /\ calls = <<>>

\* matrix.set(x, y, value)
Set ==
    /\ pc = "matrix"
    /\ \E x \in Coordinates, y \in Coordinates, value \in BOOLEAN :
           matrix' = set(matrix, x, y, value)
    /\ UNCHANGED <<view, calls, pc, file, scan, ratioOk, image, query, candidates, patterns,
                   reads, result, error, tried, pending, attempts, native, fallbackStarts>>

NextMatrix == Set

SpecMatrix == InitMatrix /\ [][NextMatrix]_vars

(***************************************************************************)
(* SpecComponent: the reader component (QRReader.vue).  handleFile is      *)
(* invoked MaxCalls times, each time whenever the user drops or picks a    *)
(* file, also while earlier invocations are suspended at their await.  A   *)
(* file is what handleFile can tell of it: its MIME type, and what         *)
(* qrReader.read(file) settles with, a text or an Error.  The text of the  *)
(* k-th file is its name, the k-th capital letter.                         *)
(***************************************************************************)
MaxCalls == 2

PleaseSelect == "Please select an image file"

Names == <<"A", "B", "C", "D">>

ComponentFiles(k) ==
    {[name |-> Names[k], type |-> "text/plain", text |-> None, message |-> None],
     [name |-> Names[k], type |-> "image/png", text |-> Names[k], message |-> None],
     [name |-> Names[k], type |-> "image/png", text |-> None, message |-> CouldNotFind]}

InitComponent ==
    /\ pc = "mounted"
    /\ file \in {fs \in [1..MaxCalls -> UNION {ComponentFiles(k) : k \in 1..MaxCalls}] :
                    \A k \in 1..MaxCalls : fs[k].name = Names[k]}
    /\ image = NoImage
    /\ Idle

\* handleFile(file), up to its return or its await.  `during` is the set of
\* earlier invocations that are suspended at their await at that moment.
HandleFile ==
    /\ pc = "mounted"
    /\ Len(calls) < MaxCalls
    /\ \E f \in {file[Len(calls) + 1]} :
           IF f.type \notin {"image/png"}
           THEN /\ view' = [view EXCEPT !.error = PleaseSelect, !.result = None]
                /\ calls' = Append(calls, [file |-> f, pc |-> "returned", onload |-> FALSE,
                                           during |-> {}])
           ELSE /\ view' = [view EXCEPT !.error = None, !.result = None,
                                        !.isLoading = TRUE]
                /\ calls' = Append(calls,
                       [file |-> f, pc |-> "await", onload |-> TRUE,
                        during |-> {k \in 1..Len(calls) : calls[k].pc = "await"}])
    /\ UNCHANGED <<pc, file, scan, ratioOk, image, query, candidates, patterns, matrix, reads,
                   result, error, tried, pending, attempts, native, fallbackStarts>>

\* reader.onload of one invocation
Onload ==
    /\ pc = "mounted"
    /\ \E k \in 1..Len(calls) :
           /\ calls[k].onload
           /\ view' = [view EXCEPT !.previewUrl = calls[k].file.name]
           /\ calls' = [calls EXCEPT ![k].onload = FALSE]
    /\ UNCHANGED <<pc, file, scan, ratioOk, image, query, candidates, patterns, matrix, reads,
                   result, error, tried, pending, attempts, native, fallbackStarts>>

\* qrReader.read(file) of one invocation settles: handleFile goes on from
\* its await through try or catch, and finally.
Settle ==
    /\ pc = "mounted"
    /\ \E k \in 1..Len(calls) :
           /\ calls[k].pc = "await"
           /\ view' = IF calls[k].file.text # None
                      THEN [view EXCEPT !.result = calls[k].file.text,
                                        !.isLoading = FALSE]
                      ELSE [view EXCEPT !.error = calls[k].file.message,
                                        !.isLoading = FALSE]
           /\ calls' = [calls EXCEPT ![k].pc = "returned"]
    /\ UNCHANGED <<pc, file, scan, ratioOk, image, query, candidates, patterns, matrix, reads,
                   result, error, tried, pending, attempts, native, fallbackStarts>>

NextComponent == HandleFile \/ Onload \/ Settle

SpecComponent == InitComponent /\ [][NextComponent]_vars

(***************************************************************************)
(* Claims about QRImageData, checked under SpecImage.                      *)
(***************************************************************************)
OutOfRange(img, x, y) == x < 0 \/ y < 0 \/ x >= img.width \/ y >= img.height

\* C8: for every (x, y) outside [0,width) x [0,height) and every active
\* threshold in 0..255, isBlack(x, y) returns false.
C8_OutOfRangeIsNotBlack ==
    (query.asked /\ OutOfRange(image, query.x, query.y)
        /\ query.threshold = <<>> /\ image.threshold \in 0..MaxLevel)
    => query.black = FALSE

SetMin(S) == CHOOSE v \in S : \A u \in S : v <= u

SetMax(S) == CHOOSE v \in S : \A u \in S : u <= v

Levels(gray) == {gray[i] : i \in 1..Len(gray)}

\* The luminances fall in two narrow peaks: every level is within one step
\* of the lowest or of the highest level, and the two groups are further
\* apart than that.
LowerPeak(gray) == {v \in Levels(gray) : v <= SetMin(Levels(gray)) + 1}

UpperPeak(gray) == {v \in Levels(gray) : v >= SetMax(Levels(gray)) - 1}

TwoNarrowPeaks(gray) ==
    /\ Levels(gray) = LowerPeak(gray) \cup UpperPeak(gray)
    /\ SetMax(LowerPeak(gray)) + 1 < SetMin(UpperPeak(gray))

\* C9: for an image whose histogram has two narrow peaks, the threshold the
\* constructor computes classifies every pixel of the lower peak black and
\* every pixel of the upper peak white (black iff luminance < threshold).
C9_OtsuSeparatesPeaks ==
    [][(pc = "new" /\ pc' = "ready" /\ TwoNarrowPeaks(image'.grayscale))
        => \A x \in 0..(image'.width - 1), y \in 0..(image'.height - 1) :
              isBlack(image', x, y, <<>>)
                  <=> getPixel(image', x, y) \in LowerPeak(image'.grayscale)]_vars

\* The between-class variance wB * wF * (mB - mF)^2 of the split luminance
\* <= t versus luminance > t, as the fraction <<numerator, denominator>>; 0
\* when one class is empty.
BetweenClassVariance(gray, t) ==
    LET low == {k \in 1..Len(gray) : gray[k] <= t}
        high == {k \in 1..Len(gray) : gray[k] > t}
        wB == Cardinality(low)
        wF == Cardinality(high)
        sumB == SumSeq([k \in 1..Len(gray) |-> IF k \in low THEN gray[k] ELSE 0])
        sumF == SumSeq([k \in 1..Len(gray) |-> IF k \in high THEN gray[k] ELSE 0])
        d == sumB * wF - sumF * wB
    IN  IF wB = 0 \/ wF = 0 THEN <<0, 1>> ELSE <<d * d, wB * wF>>

\* The fraction v is less than the fraction w (denominators positive).
FractionLt(v, w) == v[1] * w[2] < w[1] * v[2]

\* t is the lowest of the thresholds 0..255 with the largest variance.
LowestMaximizer(gray, t) ==
    \E best \in {BetweenClassVariance(gray, t)} :
        \A u \in 0..MaxLevel :
            \E other \in {BetweenClassVariance(gray, u)} :
                /\ ~FractionLt(best, other)
                /\ u < t => FractionLt(other, best)

\* C25: for every image, one of a single luminance included, the
\* default threshold is the lowest t in 0..255 that maximizes the
\* between-class variance: no t gives a larger variance and no smaller t an
\* equal one.
C25_DefaultIsLowestMaximizer ==
    [][(pc = "new" /\ pc' = "ready")
        => LowestMaximizer(image'.grayscale, image'.threshold)]_vars

\* C22: isBlack is monotonic in the threshold: for a fixed pixel, when a call
\* at threshold t1 (set with setThreshold or passed with the call) answers
\* black, the next call at a threshold t2 >= t1 answers black too.
C22_RaisingThresholdKeepsBlack ==
    [][(/\ query.asked /\ query'.asked
        /\ query'.x = query.x /\ query'.y = query.y
        /\ query.level <= query'.level
        /\ query.black) => query'.black]_vars

\* A pixel inside the image has been asked for, at the set threshold 77, and
\* is black.
C22_Witness ==
    /\ query.asked /\ query.black
    /\ query.x \in 0..(image.width - 1) /\ query.y \in 0..(image.height - 1)
    /\ query.threshold = <<>> /\ query.level = 77

(***************************************************************************)
(* Claims about QRDataDecoder, checked under SpecDecoder.                  *)
(***************************************************************************)
\* The input is a byte-mode stream whose count is the number of its
\* characters, between 1 and 24, in a 21x21 matrix.
ByteStringV1 ==
    /\ file.size = 21 /\ file.mode = 4 /\ file.unitWidth = ByteWidth
    /\ file.count = Len(file.units) /\ file.count \in 1..24

\* C2: a 21x21 matrix holding, in the visiting order, 0100, the length C
\* (1..24) as 8 bits and the codes of a byte string s decodes to exactly s.
C2_ByteStringDecodes ==
    (pc = "decoded" /\ ByteStringV1) => result = file.units

\* 'QR!' (mode 4, length 3) has been decoded, to 'QR!'.
C2_Witness ==
    /\ pc = "decoded" /\ ByteStringV1
    /\ file.units = <<81, 82, 33>> /\ result = <<81, 82, 33>>

\* C3: a bit stream of at least 8 bits whose first 4 bits are a value other
\* than 1, 2 and 4 decodes to 'Unsupported QR mode', and no error is raised.
C3_OtherModesUnsupported ==
    (/\ pc = "decoded"
     /\ Len(readData(matrix)) >= 8
     /\ bitsToInt(Slice(readData(matrix), 0, 4)) \notin {1, 2, 4})
    => (result = UnsupportedMode /\ error = None)

\* A 21x21 matrix whose stream starts 0111 has been decoded.
C3_Witness ==
    /\ pc = "decoded" /\ file.size = 21 /\ file.mode = 7
    /\ Len(readData(matrix)) = 208
    /\ result = UnsupportedMode

\* The input is a digit string in numeric mode, laid out in consecutive
\* groups of 10, 7 and 4 bits.
NumericString == file.mode = 1 /\ file.unitWidth = 10

\* The digits of the input: three per group, then the last two or the last one.
NumericText ==
    Concat([k \in 1..Len(file.units) |-> PadStart(DecimalString(file.units[k]), 3)])
        \o (IF file.tailWidth = 0 THEN <<>>
            ELSE PadStart(DecimalString(file.tail), file.count - 3 * Len(file.units)))

\* C16: in numeric mode the digits are decoded in groups of up to 3 from
\* consecutive, non-overlapping bit ranges, a group of 3, 2 or 1 digits taking
\* exactly 10, 7 or 4 bits: a digit string laid out so decodes to itself.
C16_NumericGroupsConsecutive ==
    (pc = "decoded" /\ NumericString) => result = NumericText

\* The input is an alphanumeric string of `count` characters: pair k in the 11
\* bits at offset 11k after the 9-bit count, an odd last character in 6 bits.
AlphanumericString == file.mode = 2 /\ file.unitWidth = 11

\* The character of the 45-character set at index v, if there is one.
CharsetChar(v) == IF v < 45 THEN <<Charset[v + 1]>> ELSE <<>>

\* C17: in alphanumeric mode with count C, pair k is decoded from the 11 bits
\* at offset 11k after the 9-bit count as a value v, emitting charset[v div 45]
\* then charset[v mod 45]; an odd last character is decoded from 6 bits as
\* charset[v] (so v = 0 gives '00' and v = 44 gives '0:').
C17_AlphanumericPairs ==
    (pc = "decoded" /\ AlphanumericString) =>
        result =
            Concat([k \in 1..Len(file.units) |->
                       CharsetChar(file.units[k] \div 45) \o CharsetChar(file.units[k] % 45)])
                \o (IF file.tailWidth = 0 THEN <<>> ELSE CharsetChar(file.tail))

\* The pairs 0 and 44 and the last character 10 have been decoded, to '000:A'.
C17_Witness ==
    /\ pc = "decoded" /\ AlphanumericString
    /\ file.units = <<0, 44>> /\ file.tail = 10 /\ file.count = 5
    /\ result = <<48, 48, 48, 58, 65>>

\* The bit at which the field holding character c (1-based) of a declared
\* length ends, as decodeData lays the fields out: bytes of 8 bits after 12
\* header bits; pairs of 11 bits and an odd last character of 6 bits after 13
\* header bits; digit groups as decodeNumeric slices them after 14 header bits.
FieldEnd(mode, c, length) ==
    IF mode = 4 THEN 12 + 8 * c
    ELSE IF mode = 2
    THEN LET pair == (c - 1) \div 2
         IN  13 + 11 * pair + (IF 2 * pair + 1 < length THEN 11 ELSE 6)
    ELSE LET i == 3 * ((c - 1) \div 3)
             count == Min(3, length - i)
         IN  14 + i * 3 + count * 3 + (count - 1)

\* The characters of the declared length whose field lies within the bits.
Covered(bits, mode, length) ==
    {c \in 1..length : FieldEnd(mode, c, length) <= Len(bits)}

\* C18: in every supported mode (byte, numeric, alphanumeric), when the bit
\* stream holds fewer bits than the declared length needs, decode raises
\* nothing and returns a truncated string: only the characters fully covered
\* by present bits are emitted.
C18_TruncatedToCoveredCharacters ==
    pc = "decoded" =>
        \E bits \in {readData(matrix)} :
            LET mode == bitsToInt(Slice(bits, 0, 4))
                length == bitsToInt(Slice(bits, 4, 4 + CountWidth(mode)))
                covered == Covered(bits, mode, length)
            IN  (mode \in {1, 2, 4} /\ Cardinality(covered) < length)
                    => (error = None /\ Len(result) <= Cardinality(covered))

\* The cells of a size x size matrix that are not reserved.
FreeCells(size) ==
    {c \in (0..(size - 1)) \X (0..(size - 1)) : ~isReserved(c[1], c[2], size)}

\* The right column of the pair that column x belongs to: pairs run from the
\* last column leftwards, and a pair that would have column 6 on its right is
\* moved one column to the left.
RightOf(x, size) ==
    IF size % 2 = 0 \/ x >= 7
    THEN size - 1 - 2 * ((size - 1 - x) \div 2)
    ELSE IF x % 2 = 1 THEN x ELSE x + 1

\* The number of pairs to the right of the pair of column x.
PairOf(x, size) ==
    IF size % 2 = 0 \/ x >= 7
    THEN (size - 1 - x) \div 2
    ELSE (size - 7) \div 2 + (5 - RightOf(x, size)) \div 2

\* The place of cell (x, y) in the zigzag: pairs right to left, the first
\* bottom-to-top and the direction reversing with each pair, and within a row
\* the right column before the left.
ZigzagRank(cell, size) ==
    LET pair == PairOf(cell[1], size)
        step == IF pair % 2 = 0 THEN size - 1 - cell[2] ELSE cell[2]
    IN  pair * 2 * size + 2 * step + (RightOf(cell[1], size) - cell[1])

\* C19: readData's bit stream consists of exactly the non-reserved cells of
\* the matrix, each once, in zigzag order (column pairs right to left, column
\* 6 never the right column of a pair, the first pair bottom-to-top, the
\* direction reversing with each pair, the right column before the left
\* within a row); its length is size^2 minus the reserved cells, 208 for
\* size 21.
C19_StreamIsZigzagOfFreeCells ==
    pc = "matrix" =>
        \E order \in {ReadOrder(matrix.size)} :
        \E bits \in {readData(matrix)} :
            /\ Len(bits) = Len(order)
            /\ Len(order) = Cardinality(FreeCells(matrix.size))
            /\ {order[i] : i \in 1..Len(order)} = FreeCells(matrix.size)
            /\ \A i \in 1..Len(order) :
                  /\ RightOf(order[i][1], matrix.size) # 6
                  /\ bits[i] = (order[i] \in matrix.cells)
            /\ \A i \in 1..(Len(order) - 1) :
                  ZigzagRank(order[i], matrix.size) < ZigzagRank(order[i + 1], matrix.size)
            /\ matrix.size = 21 => Len(bits) = 208

\* A 21x21 matrix whose stream of 208 bits has a set bit.
C19_Witness ==
    /\ pc = "matrix"
    /\ matrix.size = 21
    /\ Len(readData(matrix)) = 208
    /\ \E i \in 1..208 : readData(matrix)[i]

\* C27: whenever the bit stream holds enough bits for the declared count C,
\* the string decodeData returns has exactly C characters, in byte mode, in
\* numeric mode (C digits) and in alphanumeric mode, whatever the payload bits.
C27_DeclaredCountCharacters ==
    pc = "decoded" =>
        \E bits \in {readData(matrix)} :
            LET mode == bitsToInt(Slice(bits, 0, 4))
                length == bitsToInt(Slice(bits, 4, 4 + CountWidth(mode)))
            IN  (/\ Len(bits) >= 8
                 /\ mode \in {1, 2, 4}
                 /\ Cardinality(Covered(bits, mode, length)) = length)
                    => Len(result) = length

(***************************************************************************)
(* Claims about QRSampler, checked under SpecSampler.                      *)
(***************************************************************************)
\* C4: with fewer than 3 patterns sample raises 'Need 3 finder patterns',
\* produces no BitMatrix and has read no pixel of the image.
C4_FewerThanThreeRaises ==
    (pc = "sampled" /\ Len(patterns) < 3)
    => (error = NeedThree /\ matrix = NoMatrix /\ reads = {})

\* sample has been called with two patterns and has raised.
C4_Witness == pc = "sampled" /\ Len(patterns) = 2 /\ error = NeedThree

\* The raw candidate d = round(avgDistance / moduleSize) + 7 of the patterns
\* sample was given.
RawDimension ==
    LET ordered == orderPatterns(patterns)
        moduleSize == estimateModuleSize(ordered[1], ordered[2], ordered[3])
    IN  RoundAvgDistance(DistanceSq(ordered[1].center, ordered[2].center),
                         DistanceSq(ordered[1].center, ordered[3].center),
                         moduleSize) + 7

\* C14: the dimension computeDimension returns is the value congruent to 1
\* mod 4 nearest to the raw candidate d: no m with m mod 4 = 1 is nearer to d.
C14_NearestOneModFour ==
    (pc = "sampled" /\ error = None) =>
        \E d \in {RawDimension} :
            d >= 7 =>
                \A m \in (d - 4)..(d + 4) :
                    m % 4 = 1 => Abs(matrix.size - d) <= Abs(m - d)

\* The orders in which the three patterns can be handed to sample.
Orders ==
    { [k \in 1..3 |-> patterns[q[k]]] :
        q \in {f \in [1..3 -> 1..3] : \A j, k \in 1..3 : j # k => f[j] # f[k]} }

\* C15: sample accepts its three patterns in any order: each of the six
\* orders, patterns sharing center.y or center.x included, yields the same
\* BitMatrix, cell for cell and of the same dimension.
C15_AnyOrderSameMatrix ==
    (pc = "sampled" /\ Len(patterns) = 3 /\ error = None) =>
        \A q \in Orders :
            \E out \in {sample(image, q)} :
                out.error = None /\ out.matrix = matrix

\* C21: every BitMatrix sample produces from three patterns has a size of the
\* form 17 + 4v with an integer version v >= 1: the size is odd and at least 21.
C21_SizeIsAVersionSize ==
    (pc = "sampled" /\ error = None) =>
        \E v \in 1..matrix.size : matrix.size = 17 + 4 * v

\* C26: every pixel sample reads has rounded coordinates inside the image,
\* 0 <= round(px) < width and 0 <= round(py) < height, also for fractional
\* centres and module sizes; a grid cell whose pixel position is outside the
\* image is never read and stays false.
C26_ReadsInsideImage ==
    (pc = "sampled" /\ error = None) =>
        /\ \A r \in reads : r[1] \in 0..(image.width - 1) /\ r[2] \in 0..(image.height - 1)
        /\ \E ordered \in {orderPatterns(patterns)} :
              \A c \in matrix.cells :
                  InsideImage(image,
                      SamplePoint(ordered[1],
                                  estimateModuleSize(ordered[1], ordered[2], ordered[3]),
                                  c[1], c[2]))

(***************************************************************************)
(* Claims about FinderPatternDetector, checked under SpecDetector.         *)
(***************************************************************************)
\* pats are the groups of cands with the most members, largest first: each
\* is the average of a group of its own, no group counts more than the one
\* before it, and no group left out counts more than a group listed.
RankedByMembers(pats, cands) ==
    LET groups == Groups(cands)
    IN  /\ Len(pats) = Min(3, Len(groups))
        /\ \E idx \in [1..Len(pats) -> 1..Len(groups)] :
              /\ \A j, k \in 1..Len(pats) : j # k => idx[j] # idx[k]
              /\ \A k \in 1..Len(pats) : pats[k] = Average(groups[idx[k]])
              /\ \A k \in 1..(Len(pats) - 1) :
                    Len(groups[idx[k]]) >= Len(groups[idx[k + 1]])
              /\ \A g \in 1..Len(groups) :
                    (\A k \in 1..Len(pats) : idx[k] # g)
                        => \A k \in 1..Len(pats) : Len(groups[g]) <= Len(groups[idx[k]])

\* C10: when findPatterns clusters its candidates (three or more of them),
\* it returns at most 3 patterns, the groups with the largest member counts
\* in non-increasing order of member count.
C10_LargestGroupsFirst ==
    (pc = "found" /\ Len(candidates) >= 3)
        => (Len(patterns) <= 3 /\ RankedByMembers(patterns, candidates))

(***************************************************************************)
(* Claims about the row scan of findPatterns, checked under SpecScan.      *)
(***************************************************************************)
\* The stepped scan builds the array the whole scan builds.
ScanAgrees == pc = "found" => candidates = ScanImage(image)

\* The scan is at a point where findPatterns tests the five counts: a white
\* to black transition in state 4, or the end of a row in state 4.
AtCheck ==
    /\ pc = "scanning"
    /\ scan.i < image.height
    /\ scan.currentState = 4
    /\ \/ scan.j = image.width
       \/ /\ scan.j < image.width
          /\ isBlack(image, scan.j, scan.i, <<>>)
          /\ ~scan.lastWasBlack

\* Both tests pass on the current counts, the vertical one at the rounded
\* centre column.
BothPass ==
    /\ checkRatio(scan.stateCount)
    /\ checkVertical(image, scan.i,
                     RRound(getCenterFromEnd(scan.stateCount, scan.j)))

\* C11: a candidate is recorded only at a check point (mid-row white to black
\* transition or end of row) where checkRatio passes on the five counts and
\* checkVertical passes at the candidate's rounded centre column; where
\* either fails, and everywhere else, the array of candidates is unchanged.
C11_RecordedOnlyAfterBothChecks ==
    [][IF AtCheck /\ BothPass
       THEN candidates' =
                Append(candidates,
                       FinderPattern(Point(getCenterFromEnd(scan.stateCount, scan.j),
                                           RInt(scan.i)),
                                     Rat(SumSeq(scan.stateCount), 7)))
       ELSE candidates' = candidates]_vars

\* A candidate has been recorded in mid-row and the scan goes on.
C11_Witness ==
    /\ pc = "scanning"
    /\ candidates # <<>>
    /\ scan.j > 0
    /\ scan.j < image.width

\* Row i of the image is white pixels, then the runs black m, white m, black
\* 3m, white m, black m starting at column a, then white pixels.
CleanRow(i, m, a) ==
    \A x \in 0..(image.width - 1) :
        isBlack(image, x, i, <<>>)
            = (\/ x - a \in 0..(m - 1)
               \/ x - a \in (2 * m)..(5 * m - 1)
               \/ x - a \in (6 * m)..(7 * m - 1))

\* C23: for a row of white pixels, then runs black m, white m, black 3m,
\* white m, black m, then white pixels, the row scan reaches a ratio check
\* whose five counts are exactly (m, m, 3m, m, m), so that the horizontal
\* ratio test passes on a clean centre scanline of a finder pattern.
C23_CleanRowIsCheckedOnItsRuns ==
    pc = "found" =>
        \A i \in 0..(image.height - 1), m \in 1..MaxModule :
            (\E a \in 0..(image.width - 7 * m) : CleanRow(i, m, a)) =>
                \E k \in 1..Len(scan.checks) :
                    scan.checks[k] = [i |-> i, stateCount |-> <<m, m, 3 * m, m, m>>]

\* The run that ends at column j - 1 of row i (j >= 1): its length.
RECURSIVE LastRun(_, _)
LastRun(i, j) ==
    IF j = 1 THEN 1
    ELSE IF isBlack(image, j - 1, i, <<>>) = isBlack(image, j - 2, i, <<>>)
    THEN LastRun(i, j - 1) + 1
    ELSE 1

\* Slots 0..slot hold the lengths of the runs of row i that end at column
\* j - 1, one run per slot, white in the even slots and black in the odd ones;
\* slot 0 is empty when the row starts with a black pixel.
RECURSIVE SlotsAreRuns(_, _, _)
SlotsAreRuns(i, j, slot) ==
    IF j = 0 THEN \A k \in 0..slot : scan.stateCount[k + 1] = 0
    ELSE /\ isBlack(image, j - 1, i, <<>>) = (slot % 2 = 1)
         /\ scan.stateCount[slot + 1] = LastRun(i, j)
         /\ slot > 0 => SlotsAreRuns(i, j - LastRun(i, j), slot - 1)

\* C24: during a row scan, after any prefix of the row's pixels (also after
\* shiftCounts), the five slots hold the lengths of consecutive maximal
\* same-colour runs of the row, alternating in colour from slot to slot:
\* every scanned pixel is counted in the slot of its own run and no slot
\* holds pixels of both colours.
C24_SlotsHoldRuns ==
    (pc = "scanning" /\ scan.i < image.height) =>
        /\ SlotsAreRuns(scan.i, scan.j, scan.currentState)
        /\ \A k \in (scan.currentState + 1)..4 : scan.stateCount[k + 1] = 0

(***************************************************************************)
(* Claims about checkRatio, checked under SpecRatio.                       *)
(***************************************************************************)
\* moduleSize = total / 7 of the counts under test.
ModuleSizeOf(stateCount) == Rat(SumSeq(stateCount), 7)

\* Run k of the counts is further than `factor` module sizes from its expected
\* length (1, 1, 3, 1, 1 module sizes).
Deviates(stateCount, k, factor) ==
    LET moduleSize == ModuleSizeOf(stateCount)
        expected == IF k = 3 THEN RMul(RInt(3), moduleSize) ELSE moduleSize
    IN  RLt(RMul(factor, moduleSize), RAbs(RSub(expected, RInt(stateCount[k]))))

\* C12 as stated: checkRatio rejects every five counts in which any one run
\* deviates from its expected length by more than 0.7 x moduleSize.
C12_AnyRunBeyondToleranceRejected ==
    (pc = "checked" /\ \E k \in 1..5 : Deviates(scan.stateCount, k, Rat(7, 10)))
        => ~ratioOk

\* C12 amended: checkRatio rejects every five counts in which one of the four
\* outer runs deviates from moduleSize by more than 0.7 x moduleSize, or the
\* centre run deviates from 3 x moduleSize by more than 2.1 x moduleSize.
C12_BeyondOwnToleranceRejected ==
    (pc = "checked"
     /\ \/ \E k \in {1, 2, 4, 5} : Deviates(scan.stateCount, k, Rat(7, 10))
        \/ Deviates(scan.stateCount, 3, Rat(21, 10)))
        => ~ratioOk

\* Seven pixels or more, the fifth run alone beyond its tolerance, rejected.
C12_Witness ==
    /\ pc = "checked"
    /\ SumSeq(scan.stateCount) >= 7
    /\ Deviates(scan.stateCount, 5, Rat(7, 10))
    /\ \A k \in 1..4 : ~Deviates(scan.stateCount, k, Rat(7, 10))
    /\ ~ratioOk

(***************************************************************************)
(* Claims about filterPatterns, checked under SpecFilter.                  *)
(***************************************************************************)
\* Candidates a and b have centres 5 px apart.
FiveApart(a, b) ==
    DistanceSq(candidates[a].center, candidates[b].center) = RInt(25)

\* The candidates with the indices in S, in scan order.
RECURSIVE Members(_, _)
Members(S, from) ==
    IF from > Len(candidates) THEN <<>>
    ELSE (IF from \in S THEN <<candidates[from]>> ELSE <<>>) \o Members(S, from + 1)

\* Candidates a and b are returned as one pattern, the average of a group of
\* candidates that holds both.
MergedInto(a, b) ==
    \E S \in SUBSET (1..Len(candidates)) :
        /\ a \in S
        /\ b \in S
        /\ \E k \in 1..Len(patterns) : patterns[k] = Average(Members(S, 1))

\* C13: whatever the number and order of the candidates, two candidates whose
\* centres are 5 px apart are returned by filterPatterns merged into a single
\* pattern, the average of its group, never as two separate patterns.
C13_FiveApartAreMerged ==
    pc = "filtered" =>
        \A a, b \in 1..Len(candidates) :
            (a < b /\ FiveApart(a, b)) => MergedInto(a, b)

(***************************************************************************)
(* Claims about QRCodeReader, checked under SpecReader.                    *)
(***************************************************************************)
\* C20: the active threshold of the image is within 0..255 after construction
\* and after every setThreshold call the retry driver makes, whatever the
\* Otsu default.
C20_ThresholdInByteRange ==
    image # NoImage => image.threshold \in 0..255

\* The first pass of the loop has been made.
FirstPassDone == attempts # <<>>

\* C1: for a rendered, upright, pure black-on-white byte-mode symbol of a
\* known text, the pipeline at the image's natural (Otsu) threshold - the
\* driver's first pass - returns that text.
C1_RenderedSymbolIsRead ==
    (FirstPassDone /\ file.rendered)
        => (attempts[1].threshold = computeOtsuThreshold(image.grayscale)
            /\ attempts[1].decoded
            /\ attempts[1].text = file.text)

\* The six thresholds of the policy, from the Otsu default d.
Policy(d) == <<d, d - 20, d + 20, 100, 127, 150>>

\* A decoded string that is neither empty nor the sentinel.
Usable(text) == text # <<>> /\ text # UnsupportedMode

\* C5: the driver applies the thresholds Otsu default, default-20,
\* default+20, 100, 127, 150 in this order, all derived from the default the
\* image had before the first override; it returns the string of the first
\* pass whose string is non-empty and not the sentinel, and no threshold is
\* applied or tried after that pass.
C5_FixedOrderFirstUsable ==
    attempts # <<>> =>
        LET policy == Policy(computeOtsuThreshold(image.grayscale))
            n == Len(attempts)
        IN  /\ n <= 6
            /\ Len(tried) = n
            /\ \A k \in 1..n : tried[k] = policy[k] /\ attempts[k].threshold = policy[k]
            /\ \A k \in 1..(n - 1) : ~Usable(attempts[k].text)
            /\ image.threshold = policy[n]
            /\ Usable(attempts[n].text) => (pc = "returned" /\ result = attempts[n].text)
            /\ pc = "returned" => (Usable(attempts[n].text) /\ result = attempts[n].text)

\* The driver has returned 'QR!' at the fourth threshold, 100, after three
\* passes that failed.
C5_Witness ==
    /\ pc = "returned" /\ result = <<81, 82, 33>>
    /\ tried = <<0, -20, 20, 100>>
    /\ image.threshold = 100

\* A pass that failed: fewer than 3 patterns, a raise, the empty string or
\* the sentinel.
Failed(a) ==
    \/ a.found < 3
    \/ a.raised # None
    \/ (a.decoded /\ a.text = <<>>)
    \/ (a.decoded /\ a.text = UnsupportedMode)

\* C6: a failed pass never ends the loop: the next threshold is tried, and
\* 'Could not find QR code in image' is raised only after six failed passes.
C6_FailuresContinue ==
    attempts # <<>> =>
        /\ \A k \in 1..Len(attempts) :
              Failed(attempts[k])
                  => \/ k < Len(attempts)
                     \/ (k < 6 /\ pc = "loaded" /\ pending # <<>>)
                     \/ (k = 6 /\ pc = "thrown" /\ error = CouldNotFind)
        /\ error = CouldNotFind
              => (Len(attempts) = 6 /\ \A k \in 1..6 : Failed(attempts[k]))
        /\ pc = "thrown" => error = CouldNotFind

\* Six passes have failed, some for want of patterns and some on the
\* sentinel, and the error has been raised.
C6_Witness ==
    /\ pc = "thrown" /\ error = CouldNotFind /\ Len(attempts) = 6
    /\ \E k \in 1..6 : attempts[k].found < 3
    /\ \E k \in 1..6 : attempts[k].decoded /\ attempts[k].text = UnsupportedMode

\* The native detector exists, does not throw and its first result has a
\* non-empty rawValue.
NativeAnswers ==
    /\ native.exists /\ ~native.throws
    /\ Len(native.results) > 0 /\ native.results[1] # <<>>

\* C7: read tries the native detector first and returns its first rawValue
\* when that is non-empty, without starting the fallback; otherwise the
\* fallback is started exactly once and its outcome is the outcome of read.
C7_NativeFirstFallbackOnce ==
    /\ fallbackStarts <= 1
    /\ pc = "detecting" => fallbackStarts = 0
    /\ pc \in {"returned", "thrown"} =>
          IF NativeAnswers
          THEN /\ pc = "returned" /\ result = native.results[1]
               /\ fallbackStarts = 0 /\ attempts = <<>> /\ image = NoImage
          ELSE /\ fallbackStarts = 1
               /\ \/ /\ pc = "returned" /\ attempts # <<>>
                     /\ result = attempts[Len(attempts)].text /\ error = None
                  \/ /\ pc = "thrown" /\ result = <<>>
                     /\ error = IF file.loads THEN CouldNotFind ELSE FailedToLoad

\* The detector's first rawValue was empty (its second was not): the
\* fallback ran once and read returned what it read, 'QR!'.
C7_Witness ==
    /\ pc = "returned"
    /\ native.exists /\ native.results = << <<>>, <<72, 73>> >>
    /\ fallbackStarts = 1
    /\ result = <<81, 82, 33>>

(***************************************************************************)
(* Claims about BitMatrix, checked under SpecMatrix.                       *)
(***************************************************************************)
InRange(mat, x, y) == x \in 0..(mat.size - 1) /\ y \in 0..(mat.size - 1)

\* C28: under any sequence of set calls with arbitrary integer coordinates
\* the matrix stays size x size: a set outside [0,size) x [0,size) changes
\* nothing observable, so get(x, y) is false for every (x, y) outside it.
C28_NothingOutsideTheMatrix ==
    pc = "matrix" =>
        \A x \in Coordinates, y \in Coordinates :
            ~InRange(matrix, x, y) => ~get(matrix, x, y)

(***************************************************************************)
(* Claims about the reader component, checked under SpecComponent.         *)
(***************************************************************************)
IsImage(f) == f.type = "image/png"

\* C29: when handleFile is invoked for image file A and again for image
\* file B before A's decode has settled, then once both have settled the
\* component shows B's outcome only: result and error are those of B, and
\* they are not both non-null.
C29_LastFileOnlyIsShown ==
    (/\ pc = "mounted"
     /\ Len(calls) = 2
     /\ IsImage(calls[1].file) /\ IsImage(calls[2].file)
     /\ 1 \in calls[2].during
     /\ calls[1].pc = "returned" /\ calls[2].pc = "returned")
        => /\ view.result = calls[2].file.text
           /\ view.error = calls[2].file.message
           /\ ~(view.result # None /\ view.error # None)

====
